------------------------------ MODULE MCSpiral ------------------------------
(* A 3 x 2 matrix, for TLC. *)
EXTENDS Spiral

MCOffset == -3 .. 3
=============================================================================
