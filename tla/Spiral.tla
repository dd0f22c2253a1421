------------------------------- MODULE Spiral -------------------------------
(***************************************************************************)
(* The spiral permutation of jxcl/jxcl_impl2.h: jxcl_spiral_init fills     *)
(* perm one index at a time, then inverse; jxcl_spiral_validate checks     *)
(* them; jxcl_spiral_read_word reads the source bits in spiral order.      *)
(*                                                                         *)
(* Where the spiral passes is left open.  The offsets dr and dc come from  *)
(* a fixed-point cosine whose square overflows uint32_t and from a product *)
(* that overflows int32_t (undefined), so every integer in Offset may come *)
(* out, at every step: nothing below depends on the curve.                 *)
(***************************************************************************)
EXTENDS Integers, FiniteSets

CONSTANTS
  Rows, Cols,   \* JXCL_MATRIX_ROWS, JXCL_MATRIX_COLS (73, 23)
  Offset,       \* values of dr and dc
  Widths,       \* widths jxcl_spiral_read_word is called with (64)
  Source        \* the cells whose source bit is 1

Total == Rows * Cols
Cells == 0 .. Total - 1

ASSUME SizeAssumption == Rows \in Nat \ {0} /\ Cols \in Nat \ {0}
ASSUME OffsetAssumption == Offset \subseteq Int
ASSUME WidthAssumption == Widths \subseteq Nat \ {0}
ASSUME SourceAssumption == Source \subseteq Cells

VARIABLES
  phase,      \* which loop runs: "place", "invert", then "ready"
  k,          \* its index
  perm,       \* perm[k]
  inverse,    \* inverse[i]
  used,       \* the cells with used[idx] = 1
  position,   \* reader: position
  word,       \* reader: the bits set in the last word, by their place
  reads,      \* history: how often each cell has been read since the start
  ones        \* history: set bits in the words read since the start

tables == <<perm, inverse, used>>
reader == <<position, word, reads, ones>>
vars == <<phase, k, tables, reader>>

-----------------------------------------------------------------------------
(* Mutant of Clamp: the row or column just outside is let through. *)
ClampLate(x, size) == IF x < 0 THEN 0 ELSE IF x > size THEN size - 1 ELSE x

Clamp(x, size) == IF x < 0 THEN 0 ELSE IF x >= size THEN size - 1 ELSE x

Candidate(dr, dc) ==
  Clamp(Rows \div 2 + dr, Rows) * Cols + Clamp(Cols \div 2 + dc, Cols)

Free == Cells \ used

(* Mutant of Slot: the cell is taken whether it is free or not. *)
SlotTaken(cell) == cell

(* A taken candidate is replaced by the first free cell, if there is one. *)
Slot(cell) ==
  IF cell \in used /\ Free # {}
    THEN CHOOSE c \in Free : \A d \in Free : c <= d
    ELSE cell

Init ==
  /\ phase = "place" /\ k = 0
  /\ perm = [c \in Cells |-> 0] /\ inverse = [c \in Cells |-> 0]
  /\ used = {}
  /\ position = 0 /\ word = {}
  /\ reads = [c \in Cells |-> 0] /\ ones = 0

Place(dr, dc) ==
  /\ phase = "place" /\ k < Total
  /\ LET idx == Slot(Candidate(dr, dc))
     IN /\ perm' = [perm EXCEPT ![k] = idx]
        /\ used' = used \cup {idx}
  /\ k' = k + 1
  /\ UNCHANGED <<phase, inverse, reader>>

EndPlace ==
  /\ phase = "place" /\ k = Total
  /\ phase' = "invert" /\ k' = 0
  /\ UNCHANGED <<tables, reader>>

(* Mutant of Invert: index and value swapped. *)
InvertSwapped ==
  /\ phase = "invert" /\ k < Total
  /\ inverse' = [inverse EXCEPT ![k] = perm[k]]
  /\ k' = k + 1
  /\ UNCHANGED <<phase, perm, used, reader>>

Invert ==
  /\ phase = "invert" /\ k < Total
  /\ inverse' = [inverse EXCEPT ![perm[k]] = k]
  /\ k' = k + 1
  /\ UNCHANGED <<phase, perm, used, reader>>

EndInvert ==
  /\ phase = "invert" /\ k = Total
  /\ phase' = "ready"
  /\ UNCHANGED <<k, tables, reader>>

(* How many bits the loop reads before it breaks off. *)
ReadCount(width) == IF width <= Total - position THEN width ELSE Total - position

WordBits(n) == {i \in 0 .. n - 1 : perm[position + i] \in Source}

(* jxcl_spiral_read_word, as phase 4 of jxcl_main.c calls it in a loop     *)
(* guarded by jxcl_spiral_reader_done.                                     *)
ReadWord(width) ==
  /\ phase = "ready" /\ position < Total
  /\ LET n == ReadCount(width)
     IN /\ word' = WordBits(n)
        /\ position' = position + n
        /\ reads' = [c \in Cells |->
                       reads[c] + Cardinality({i \in 0 .. n - 1 : perm[position + i] = c})]
  /\ ones' = ones + Cardinality(word')
  /\ UNCHANGED <<phase, k, tables>>

(* Mutant of Rewind: the position starts at one. *)
RewindLate ==
  /\ phase = "ready"
  /\ position' = 1
  /\ reads' = [c \in Cells |-> 0] /\ ones' = 0
  /\ UNCHANGED <<phase, k, tables, word>>

(* jxcl_spiral_reader_init on a filled table. *)
Rewind ==
  /\ phase = "ready"
  /\ position' = 0
  /\ reads' = [c \in Cells |-> 0] /\ ones' = 0
  /\ UNCHANGED <<phase, k, tables, word>>

Next ==
  \/ \E dr, dc \in Offset : Place(dr, dc)
  \/ EndPlace
  \/ Invert
  \/ EndInvert
  \/ \E w \in Widths : ReadWord(w)
  \/ Rewind

Spec == Init /\ [][Next]_vars

-----------------------------------------------------------------------------
Distinct(p, n) == \A i, j \in 0 .. n - 1 : p[i] = p[j] => i = j

(* jxcl_spiral_validate. *)
Validate(p, inv) ==
  /\ \A i \in Cells : p[i] \in Cells
  /\ Distinct(p, Total)
  /\ \A i \in Cells : inv[i] \in Cells /\ p[inv[i]] = i

(* Tables and reader stay in their arrays. *)
TypeOK ==
  /\ phase \in {"place", "invert", "ready"}
  /\ k \in 0 .. Total
  /\ perm \in [Cells -> Cells] /\ inverse \in [Cells -> Cells]
  /\ used \subseteq Cells
  /\ position \in 0 .. Total
  /\ word \subseteq Nat
  /\ reads \in [Cells -> Nat] /\ ones \in Nat

(* No cell is visited twice, wherever the curve goes: a collision is       *)
(* always moved to a cell that is really free.                             *)
NoCellTwice == phase = "place" => Distinct(perm, k)

(* The finished tables pass the code's own check: perm is a bijection of   *)
(* the matrix and inverse undoes it.                                       *)
TablesValid == phase = "ready" => Validate(perm, inverse)

(* Reading to the end visits every source bit exactly once, a last partial *)
(* word included, and none before its turn.                                *)
EveryBitOnce ==
  \A c \in Cells : reads[c] <= 1 /\ (position = Total => reads[c] = 1)
=============================================================================
