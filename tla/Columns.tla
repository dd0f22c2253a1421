------------------------------ MODULE Columns ------------------------------
(***************************************************************************)
(* The three implementations of AES MixColumns in the repository: the C    *)
(* routine of jxcl/jxcl_impl.h, the function of                            *)
(* pascal/tlm_quantum_number_generator.pas and the gates of                *)
(* vhdl/tlm_p3_gate.vhd.  A column is a function from 0 .. 3 to bytes.     *)
(***************************************************************************)
EXTENDS Words

CONSTANTS
  ByteBits,   \* 8
  Reduction   \* the reduction polynomial without its top bit: 0x1B

ASSUME ByteAssumption == ByteBits \in Nat \ {0} /\ Reduction \subseteq 0 .. ByteBits - 1

Octet == Word(ByteBits)
Column == [0 .. 3 -> Octet]

(* jxcl_xtime, and XTime of the Pascal program. *)
XTime(b) ==
  Xor(ShiftLeft(b, 1, ByteBits), IF ByteBits - 1 \in b THEN Reduction ELSE {})

(* Mutant of Mix32: y2 takes a3 instead of the doubled a3. *)
Mix32Slip(a) ==
  LET x == [i \in 0 .. 3 |-> XTime(a[i])]
  IN [i \in 0 .. 3 |->
        CASE i = 0 -> Xor(Xor(x[0], Xor(x[1], a[1])), Xor(a[2], a[3]))
          [] i = 1 -> Xor(Xor(a[0], x[1]), Xor(Xor(x[2], a[2]), a[3]))
          [] i = 2 -> Xor(Xor(a[0], a[1]), Xor(x[2], a[3]))
          [] i = 3 -> Xor(Xor(Xor(x[0], a[0]), a[1]), Xor(a[2], x[3]))]

(* jxcl_mix32. *)
Mix32(a) ==
  LET x == [i \in 0 .. 3 |-> XTime(a[i])]
  IN [i \in 0 .. 3 |->
        CASE i = 0 -> Xor(Xor(x[0], Xor(x[1], a[1])), Xor(a[2], a[3]))
          [] i = 1 -> Xor(Xor(a[0], x[1]), Xor(Xor(x[2], a[2]), a[3]))
          [] i = 2 -> Xor(Xor(a[0], a[1]), Xor(x[2], Xor(x[3], a[3])))
          [] i = 3 -> Xor(Xor(Xor(x[0], a[0]), a[1]), Xor(a[2], x[3]))]

(* MixColumn of the Pascal program: by the sum of all four bytes. *)
MixColumn(a) ==
  LET t == Xor(Xor(a[0], a[1]), Xor(a[2], a[3]))
  IN [i \in 0 .. 3 |-> Xor(Xor(a[i], t), XTime(Xor(a[i], a[(i + 1) % 4])))]

(* xtime_gate, output by output, for bytes of eight bits. *)
XTimeGate(b) ==
  {y \in 0 .. 7 :
     CASE y \in {7, 6, 3, 2} -> y - 1 \in b
       [] y \in {5, 4, 1}    -> (y - 1 \in b) # (7 \in b)
       [] y = 0              -> 7 \in b}

(* tlm_p3_gate. *)
P3Gate(a) ==
  LET t == Xor(Xor(a[0], a[1]), Xor(a[2], a[3]))
  IN [i \in 0 .. 3 |-> Xor(Xor(a[i], t), XTimeGate(Xor(a[i], a[(i + 1) % 4])))]

(* jxcl_gf256_mul: shift and add. *)
GfMul(a, b) ==
  LET step[i \in 0 .. ByteBits] ==
        IF i = 0 THEN [p |-> {}, a |-> a]
        ELSE LET s == step[i - 1]
             IN [p |-> IF i - 1 \in b THEN Xor(s.p, s.a) ELSE s.p,
                 a |-> Xor(ShiftLeft(s.a, 1, ByteBits), IF ByteBits - 1 \in s.a THEN Reduction ELSE {})]
  IN step[ByteBits].p
=============================================================================
