-------------------------- MODULE MCEntropySettler --------------------------
(* A seed of three bits and two-valued halves of the time, for TLC. *)
EXTENDS EntropySettler

MCHalf == {{}, {0}}
MCSalt == {0, 1}
=============================================================================
