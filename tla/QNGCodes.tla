------------------------------ MODULE QNGCodes ------------------------------
(***************************************************************************)
(* The generator beside the codes that work on words like its own: the C   *)
(* routines of jxcl/jxcl_impl.h and the gates of vhdl/tlm_p3_gate.vhd, on  *)
(* whatever words the generator gets into its state.                       *)
(***************************************************************************)
EXTENDS QNG, JXCLPrimitives

(* The routines of jxcl_impl.h mean what their names say, on words of 64   *)
(* bits made of two of the generator's: counting in parallel fields counts *)
(* the ones, narrowing finds the outermost, rotations and the byte swap    *)
(* move every bit to its place, a fold decodes the Gray code.              *)
PrimitivesExact ==
  \A v \in {From32(state[p], state[(p + 1) % StateWords]) : p \in Positions} \cup {{}, AllOnes} :
    Counts(v) /\ Folds(v) /\ \A k \in {0, depth, 32, 63, 64} : Moves(v, k)

(* README: the gates are "AES MixColumns via xtime": on every word of the  *)
(* state they compute what the C routine computes.                         *)
GatesMixColumns ==
  \A i \in Positions : P3Gate(ColumnOf(state[i])) = Mix32(ColumnOf(state[i]))
=============================================================================
