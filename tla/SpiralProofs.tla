---------------------------- MODULE SpiralProofs ----------------------------
(***************************************************************************)
(* Proofs about Spiral for every size of the matrix and every curve.  The  *)
(* heart is a pigeonhole argument: before step k the cells in use are as   *)
(* many as k < Total, so the scan finds a free one; when k = Total the     *)
(* used cells are all the cells, so every entry of inverse gets written.   *)
(***************************************************************************)
EXTENDS Spiral, FiniteSetTheorems, WellFoundedInduction, TLAPS

PlaceInv ==
  phase = "place" =>
    /\ Distinct(perm, k)
    /\ used = {perm[i] : i \in 0 .. k - 1}
    /\ Cardinality(used) = k

FilledInv ==
  phase # "place" =>
    /\ Distinct(perm, Total)
    /\ \A c \in Cells : \E i \in Cells : perm[i] = c

InverseInv ==
  /\ phase = "invert" => \A i \in 0 .. k - 1 : inverse[perm[i]] = i
  /\ phase = "ready" => \A i \in Cells : inverse[perm[i]] = i

ReadInv ==
  /\ phase # "ready" => position = 0 /\ \A c \in Cells : reads[c] = 0
  /\ phase = "ready" =>
       \A c \in Cells : reads[c] = IF inverse[c] < position THEN 1 ELSE 0

Inv == TypeOK /\ PlaceInv /\ FilledInv /\ InverseInv /\ ReadInv

(* The matrix has at least one cell. *)
LEMMA TotalType == Total \in Nat \ {0}
  BY SizeAssumption, SMT DEF SizeAssumption, Total

(* Clamping brings any coordinate into the matrix. *)
LEMMA ClampType ==
  ASSUME NEW x \in Int, NEW size \in Nat \ {0}
  PROVE  Clamp(x, size) \in 0 .. size - 1
  BY SMT DEF Clamp

(* A row and a column inside the matrix make a cell inside it. *)
LEMMA CellIndex ==
  ASSUME NEW r \in 0 .. Rows - 1, NEW c \in 0 .. Cols - 1
  PROVE  r * Cols + c \in Cells
<1>1. Rows \in Nat /\ Cols \in Nat /\ r \in Nat /\ c \in Nat /\ Rows - 1 - r \in Nat
  BY SizeAssumption, SMT DEF SizeAssumption
<1>2. (Rows - 1 - r) * Cols \in Nat /\ r * Cols \in Nat
  BY <1>1, SMT
<1>3. (Rows - 1 - r) * Cols = Rows * Cols - Cols - r * Cols
  BY <1>1, SMT
<1> QED
  BY <1>1, <1>2, <1>3, SMT DEF Cells, Total

(* Whatever the curve yields, the candidate is a cell. *)
LEMMA CandidateType ==
  ASSUME NEW dr \in Offset, NEW dc \in Offset
  PROVE  Candidate(dr, dc) \in Cells
<1>1. dr \in Int /\ dc \in Int
  BY OffsetAssumption DEF OffsetAssumption
<1>2. Rows \div 2 + dr \in Int /\ Cols \div 2 + dc \in Int
  BY <1>1, SizeAssumption, SMT DEF SizeAssumption
<1>3. Clamp(Rows \div 2 + dr, Rows) \in 0 .. Rows - 1
  BY <1>2, SizeAssumption, ClampType DEF SizeAssumption
<1>4. Clamp(Cols \div 2 + dc, Cols) \in 0 .. Cols - 1
  BY <1>2, SizeAssumption, ClampType DEF SizeAssumption
<1> QED
  BY <1>3, <1>4, CellIndex DEF Candidate

(* There are Total cells. *)
LEMMA CellsFinite == IsFiniteSet(Cells) /\ Cardinality(Cells) = Total
  BY TotalType, FS_Interval, SMT DEF Cells

(* A non-empty set of cells has a smallest one: the scan stops somewhere. *)
LEMMA SmallestCell ==
  ASSUME NEW S \in SUBSET Cells, S # {}
  PROVE  \E c \in S : \A d \in S : c <= d
<1>1. S \subseteq Nat
  BY TotalType, SMT DEF Cells
<1>2. IsWellFoundedOn({ss \in Nat \X Nat : ss[1] < ss[2]}, Nat)
  BY NatLessThanWellFounded DEF OpToRel
<1>3. PICK c \in S : \A d \in S : ~(<<d, c>> \in {ss \in Nat \X Nat : ss[1] < ss[2]})
  BY <1>1, <1>2, WFMin
<1>4. \A d \in S : ~(d < c)
  BY <1>1, <1>3
<1>5. \A d \in S : c <= d
  BY <1>1, <1>4, SMT
<1> QED
  BY <1>5

(* As long as fewer than Total cells are used, a step takes a free cell.   *)
LEMMA SlotIsFree ==
  ASSUME used \subseteq Cells, Cardinality(used) # Total, NEW cell \in Cells
  PROVE  Slot(cell) \in Cells \ used
<1>1. Free # {} /\ Free \in SUBSET Cells
  BY CellsFinite DEF Free
<1>2. (CHOOSE c \in Free : \A d \in Free : c <= d) \in Free
  BY <1>1, SmallestCell
<1> QED
  BY <1>1, <1>2 DEF Slot, Free

(* Initially no index is filled and no cell used. *)
LEMMA InitInv == Init => Inv
<1> SUFFICES ASSUME Init PROVE Inv
  OBVIOUS
<1>1. 0 \in Cells /\ 0 \in 0 .. Total /\ 0 .. 0 - 1 = {}
  BY TotalType, SMT DEF Cells
<1>2. TypeOK
  BY <1>1 DEF Init, TypeOK
<1>3. PlaceInv
  BY <1>1, FS_EmptySet DEF Init, PlaceInv, Distinct
<1>4. FilledInv /\ InverseInv /\ ReadInv
  BY DEF Init, FilledInv, InverseInv, ReadInv
<1> QED
  BY <1>2, <1>3, <1>4 DEF Inv

(* A placement step fills one more index with one more cell. *)
LEMMA PlaceStep ==
  ASSUME Inv, NEW dr \in Offset, NEW dc \in Offset, Place(dr, dc)
  PROVE  Inv'
<1> DEFINE idx == Slot(Candidate(dr, dc))
<1>1. TypeOK /\ PlaceInv /\ phase = "place" /\ phase' = "place" /\ ReadInv
  BY DEF Inv, Place
<1>2. k \in Cells /\ k \in Nat /\ k + 1 \in 0 .. Total /\ k' = k + 1 /\ k # Total
  BY <1>1, TotalType, SMT DEF Place, TypeOK, Cells
<1>3. idx \in Cells \ used
  BY <1>1, <1>2, CandidateType, SlotIsFree DEF TypeOK, PlaceInv
<1> HIDE DEF idx
<1>4. perm' = [perm EXCEPT ![k] = idx] /\ used' = used \cup {idx}
  BY DEF Place, idx
<1>5. TypeOK'
  <2>1. perm' \in [Cells -> Cells] /\ used' \subseteq Cells
    BY <1>1, <1>2, <1>3, <1>4 DEF TypeOK
  <2>2. k' \in 0 .. Total
    BY <1>2
  <2>3. UNCHANGED <<inverse, position, word, reads, ones>>
    BY DEF Place, reader
  <2> QED
    BY <1>1, <2>1, <2>2, <2>3 DEF TypeOK
<1>6. \A i \in 0 .. k - 1 : perm'[i] = perm[i] /\ i # k /\ i \in Cells
  BY <1>1, <1>2, <1>4, TotalType, SMT DEF TypeOK, Cells
<1>7. perm'[k] = idx
  BY <1>1, <1>2, <1>4 DEF TypeOK
<1>8. 0 .. k' - 1 = (0 .. k - 1) \cup {k}
  BY <1>2, SMT
<1>9. used = {perm[i] : i \in 0 .. k - 1} /\ Distinct(perm, k)
  BY <1>1 DEF PlaceInv
<1>10. Distinct(perm', k')
  BY <1>3, <1>6, <1>7, <1>8, <1>9 DEF Distinct
<1>11. used' = {perm'[i] : i \in 0 .. k' - 1}
  BY <1>4, <1>6, <1>7, <1>8, <1>9
<1>12. Cardinality(used') = k'
  <2>1. IsFiniteSet(used)
    BY <1>1, CellsFinite, FS_Subset DEF TypeOK
  <2> QED
    BY <1>1, <1>2, <1>3, <1>4, <2>1, FS_AddElement DEF PlaceInv
<1>13. PlaceInv'
  BY <1>10, <1>11, <1>12 DEF PlaceInv
<1>14. FilledInv' /\ InverseInv'
  BY <1>1 DEF FilledInv, InverseInv
<1>15. ReadInv'
  BY <1>1 DEF ReadInv, Place, reader
<1> QED
  BY <1>5, <1>13, <1>14, <1>15 DEF Inv

(* When the placement loop ends, every cell has been used. *)
LEMMA EndPlaceStep == ASSUME Inv, EndPlace PROVE Inv'
<1>1. TypeOK /\ PlaceInv /\ ReadInv /\ phase = "place" /\ k = Total
  BY DEF Inv, EndPlace
<1>2. phase' = "invert" /\ k' = 0 /\ perm' = perm /\ inverse' = inverse /\ used' = used
  BY DEF EndPlace, tables
<1>3. TypeOK'
  BY <1>1, <1>2, TotalType, SMT DEF TypeOK, EndPlace, reader
<1>4. used = Cells
  BY <1>1, CellsFinite, FS_Subset DEF TypeOK, PlaceInv
<1>5. \A c \in Cells : \E i \in Cells : perm[i] = c
  BY <1>1, <1>4 DEF PlaceInv, Cells
<1>6. FilledInv'
  BY <1>1, <1>2, <1>5 DEF FilledInv, PlaceInv
<1>7. 0 .. k' - 1 = {}
  BY <1>2, SMT
<1>8. PlaceInv' /\ InverseInv'
  BY <1>2, <1>7 DEF PlaceInv, InverseInv
<1>9. ReadInv'
  BY <1>1, <1>2 DEF ReadInv, EndPlace, reader
<1> QED
  BY <1>3, <1>6, <1>8, <1>9 DEF Inv

(* Writing inverse[perm[k]] leaves the earlier entries alone: perm has no  *)
(* value twice.                                                            *)
LEMMA InvertStep == ASSUME Inv, Invert PROVE Inv'
<1>1. TypeOK /\ FilledInv /\ InverseInv /\ ReadInv /\ phase = "invert" /\ phase' = "invert"
  BY DEF Inv, Invert
<1>2. k \in Cells /\ k \in Nat /\ k + 1 \in 0 .. Total /\ k' = k + 1
  BY <1>1, TotalType, SMT DEF Invert, TypeOK, Cells
<1>3. inverse' = [inverse EXCEPT ![perm[k]] = k] /\ perm' = perm /\ used' = used
  BY DEF Invert
<1>4. TypeOK'
  BY <1>1, <1>2, <1>3 DEF TypeOK, Invert, reader
<1>5. 0 .. k' - 1 = (0 .. k - 1) \cup {k} /\ 0 .. k - 1 \subseteq Cells /\ k \notin 0 .. k - 1
  <2>1. 0 .. k' - 1 = (0 .. k - 1) \cup {k} /\ k \notin 0 .. k - 1
    BY <1>2, SMT
  <2>2. 0 .. k - 1 \subseteq Cells
    BY <1>2, TotalType, SMT DEF Cells
  <2> QED
    BY <2>1, <2>2
<1>6. inverse'[perm[k]] = k
  BY <1>1, <1>2, <1>3 DEF TypeOK
<1>7. ASSUME NEW i \in 0 .. k - 1 PROVE inverse'[perm[i]] = i
  <2>1. perm[i] # perm[k]
    BY <1>1, <1>2, <1>5 DEF FilledInv, Distinct, Cells
  <2>2. inverse'[perm[i]] = inverse[perm[i]]
    BY <1>1, <1>2, <1>3, <1>5, <2>1 DEF TypeOK
  <2> QED
    BY <1>1, <2>2 DEF InverseInv
<1>8. InverseInv'
  BY <1>1, <1>3, <1>5, <1>6, <1>7 DEF InverseInv
<1>9. PlaceInv' /\ FilledInv'
  BY <1>1, <1>3 DEF PlaceInv, FilledInv
<1>10. ReadInv'
  BY <1>1 DEF ReadInv, Invert, reader
<1> QED
  BY <1>4, <1>8, <1>9, <1>10 DEF Inv

(* inverse is complete; reading starts at position 0. *)
LEMMA EndInvertStep == ASSUME Inv, EndInvert PROVE Inv'
<1>1. TypeOK /\ FilledInv /\ InverseInv /\ ReadInv /\ phase = "invert" /\ k = Total
  BY DEF Inv, EndInvert
<1>2. phase' = "ready" /\ UNCHANGED <<k, tables, reader>>
  BY DEF EndInvert
<1>3. TypeOK' /\ PlaceInv' /\ FilledInv'
  BY <1>1, <1>2 DEF TypeOK, PlaceInv, FilledInv, tables, reader
<1>4. InverseInv'
  BY <1>1, <1>2 DEF InverseInv, tables, Cells
<1>5. \A c \in Cells : ~(inverse[c] < 0)
  BY <1>1, TotalType, SMT DEF TypeOK, Cells
<1>6. ReadInv'
  BY <1>1, <1>2, <1>5 DEF ReadInv, tables, reader
<1> QED
  BY <1>3, <1>4, <1>6 DEF Inv

(* In finished tables, inverse names the only index of each cell. *)
LEMMA InverseIsUnique ==
  ASSUME Inv, phase = "ready", NEW c \in Cells
  PROVE  /\ inverse[c] \in Cells /\ perm[inverse[c]] = c
         /\ \A j \in Cells : perm[j] = c => j = inverse[c]
<1>1. PICK i \in Cells : perm[i] = c
  BY DEF Inv, FilledInv
<1>2. \A j \in Cells : inverse[perm[j]] = j
  BY DEF Inv, InverseInv
<1> QED
  BY <1>1, <1>2

(* Reading a word counts each of its cells once, and no other cell. *)
LEMMA ReadWordStep ==
  ASSUME Inv, NEW width \in Widths, ReadWord(width)
  PROVE  Inv'
<1> DEFINE n == ReadCount(width)
           Hits(c) == {i \in 0 .. n - 1 : perm[position + i] = c}
<1>1. TypeOK /\ ReadInv /\ phase = "ready" /\ UNCHANGED <<phase, k, tables>>
  BY DEF Inv, ReadWord
<1>2. position \in Nat /\ n \in Nat /\ position + n \in 0 .. Total
  BY <1>1, TotalType, WidthAssumption, SMT DEF TypeOK, ReadWord, ReadCount, WidthAssumption
<1>3. \A i \in 0 .. n - 1 : position + i \in Cells
  BY <1>2, TotalType, SMT DEF Cells
<1>4. /\ word' = WordBits(n) /\ position' = position + n
      /\ reads' = [c \in Cells |-> reads[c] + Cardinality(Hits(c))]
      /\ ones' = ones + Cardinality(word')
  BY DEF ReadWord
<1> HIDE DEF n
<1>5. IsFiniteSet(0 .. n - 1)
  BY <1>2, FS_Interval, SMT
<1>6. word' \subseteq Nat /\ IsFiniteSet(word')
  BY <1>2, <1>4, <1>5, FS_Subset DEF WordBits
<1>7. \A c \in Cells : IsFiniteSet(Hits(c))
  BY <1>5, FS_Subset
<1>8. ASSUME NEW c \in Cells
      PROVE  reads'[c] = IF inverse[c] < position' THEN 1 ELSE 0
  <2>1. inverse[c] \in Cells /\ perm[inverse[c]] = c
        /\ \A j \in Cells : perm[j] = c => j = inverse[c]
    BY <1>1, InverseIsUnique
  <2>2. Hits(c) = {i \in 0 .. n - 1 : position + i = inverse[c]}
    BY <1>3, <2>1
  <2>3. inverse[c] \in Nat
    BY <2>1, TotalType, SMT DEF Cells
  <2>4. reads[c] = (IF inverse[c] < position THEN 1 ELSE 0)
        /\ reads'[c] = reads[c] + Cardinality(Hits(c))
    BY <1>1, <1>4 DEF ReadInv
  <2>5. CASE inverse[c] \in position .. position + n - 1
    <3>1. Hits(c) = {inverse[c] - position}
      BY <1>2, <2>2, <2>3, <2>5, SMT
    <3>2. Cardinality(Hits(c)) = 1
      BY <3>1, FS_Singleton
    <3>3. ~(inverse[c] < position) /\ inverse[c] < position'
      BY <1>2, <1>4, <2>3, <2>5, SMT
    <3> QED
      BY <2>4, <3>2, <3>3, SMT
  <2>6. CASE inverse[c] \notin position .. position + n - 1
    <3>1. Hits(c) = {}
      BY <1>2, <2>2, <2>3, <2>6, SMT
    <3>2. Cardinality(Hits(c)) = 0
      BY <3>1, FS_EmptySet
    <3>3. inverse[c] < position <=> inverse[c] < position'
      BY <1>2, <1>4, <2>3, <2>6, SMT
    <3>4. reads[c] \in Int /\ reads'[c] = reads[c]
      BY <2>4, <3>2, SMT
    <3> QED
      BY <2>4, <3>3, <3>4
  <2> QED
    BY <2>5, <2>6
<1>9. TypeOK'
  <2>1. \A c \in Cells : reads[c] + Cardinality(Hits(c)) \in Nat
    BY <1>1, <1>7, FS_CardinalityType, SMT DEF TypeOK
  <2>2. reads' \in [Cells -> Nat]
    BY <1>4, <2>1
  <2>3. ones' \in Nat
    BY <1>1, <1>4, <1>6, FS_CardinalityType, SMT DEF TypeOK
  <2> QED
    BY <1>1, <1>2, <1>4, <1>6, <2>2, <2>3 DEF TypeOK, tables
<1>10. ReadInv'
  BY <1>1, <1>8 DEF ReadInv, tables
<1>11. PlaceInv' /\ FilledInv' /\ InverseInv'
  BY <1>1 DEF Inv, PlaceInv, FilledInv, InverseInv, tables
<1> QED
  BY <1>9, <1>10, <1>11 DEF Inv

(* Rewinding forgets what was read. *)
LEMMA RewindStep == ASSUME Inv, Rewind PROVE Inv'
<1>1. TypeOK /\ phase = "ready" /\ UNCHANGED <<phase, k, tables, word>>
  BY DEF Inv, Rewind
<1>2. position' = 0 /\ reads' = [c \in Cells |-> 0] /\ ones' = 0 /\ 0 \in 0 .. Total
  BY TotalType, SMT DEF Rewind
<1>3. TypeOK'
  BY <1>1, <1>2 DEF TypeOK, tables
<1>4. \A c \in Cells : ~(inverse[c] < 0)
  BY <1>1, TotalType, SMT DEF TypeOK, Cells
<1>5. ReadInv'
  BY <1>1, <1>2, <1>4 DEF ReadInv, tables
<1>6. PlaceInv' /\ FilledInv' /\ InverseInv'
  BY <1>1 DEF Inv, PlaceInv, FilledInv, InverseInv, tables
<1> QED
  BY <1>3, <1>5, <1>6 DEF Inv

(* Inv holds throughout the construction and every use of the tables. *)
THEOREM Invariance == Spec => []Inv
<1>1. Init => Inv
  BY InitInv
<1>2. Inv /\ [Next]_vars => Inv'
  <2> SUFFICES ASSUME Inv, [Next]_vars PROVE Inv'
    OBVIOUS
  <2>1. CASE \E dr, dc \in Offset : Place(dr, dc)
    BY <2>1, PlaceStep
  <2>2. CASE EndPlace
    BY <2>2, EndPlaceStep
  <2>3. CASE Invert
    BY <2>3, InvertStep
  <2>4. CASE EndInvert
    BY <2>4, EndInvertStep
  <2>5. CASE \E w \in Widths : ReadWord(w)
    BY <2>5, ReadWordStep
  <2>6. CASE Rewind
    BY <2>6, RewindStep
  <2>7. CASE UNCHANGED vars
    BY <2>7 DEF vars, tables, reader, Inv, TypeOK, PlaceInv, FilledInv, InverseInv, ReadInv
  <2> QED
    BY <2>1, <2>2, <2>3, <2>4, <2>5, <2>6, <2>7 DEF Next
<1> QED
  BY <1>1, <1>2, PTL DEF Spec

(* No index of any table is ever out of range, whatever the overflowing    *)
(* arithmetic of the curve yields.                                         *)
THEOREM TypeCorrect == Spec => []TypeOK
<1>1. Inv => TypeOK
  BY DEF Inv
<1> QED
  BY <1>1, Invariance, PTL

(* The collision scan always finds a free cell, so no cell is taken twice. *)
THEOREM PlacementInjective == Spec => []NoCellTwice
<1>1. Inv => NoCellTwice
  BY DEF Inv, PlaceInv, NoCellTwice
<1> QED
  BY <1>1, Invariance, PTL

(* For a matrix of any size and any curve, the finished perm is a          *)
(* bijection and inverse its inverse: the code's validation cannot fail.   *)
THEOREM ValidationSucceeds == Spec => []TablesValid
<1>1. Inv => TablesValid
  <2> SUFFICES ASSUME Inv, phase = "ready" PROVE Validate(perm, inverse)
    BY DEF TablesValid
  <2>1. \A i \in Cells : inverse[i] \in Cells /\ perm[inverse[i]] = i
    BY InverseIsUnique
  <2> QED
    BY <2>1 DEF Validate, Inv, TypeOK, FilledInv
<1> QED
  BY <1>1, Invariance, PTL

(* Reading the spiral to its end, in words of any widths, visits every     *)
(* source bit exactly once.                                                *)
THEOREM ReadingIsComplete == Spec => []EveryBitOnce
<1>1. Inv => EveryBitOnce
  <2> SUFFICES ASSUME Inv, NEW c \in Cells
               PROVE  reads[c] <= 1 /\ (position = Total => reads[c] = 1)
    BY DEF EveryBitOnce
  <2>1. CASE phase = "ready"
    <3>1. reads[c] = IF inverse[c] < position THEN 1 ELSE 0
      BY <2>1 DEF Inv, ReadInv
    <3>2. inverse[c] < Total
      BY TotalType, SMT DEF Inv, TypeOK, Cells
    <3> QED
      BY <3>1, <3>2, SMT
  <2>2. CASE phase # "ready"
    BY <2>2, TotalType, SMT DEF Inv, ReadInv
  <2> QED
    BY <2>1, <2>2
<1> QED
  BY <1>1, Invariance, PTL
=============================================================================
