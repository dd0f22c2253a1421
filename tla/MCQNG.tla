------------------------------- MODULE MCQNG -------------------------------
(* The constants of the Pascal program as words, for TLC. *)
EXTENDS QNGCodes

(* A word by its two halves. *)
Halves(high, low) == Bits(low) \cup {i + 16 : i \in Bits(high)}

MCReduction == Bits(27)
MCPrime1 == Halves(40503, 31161)   \* 9E3779B9
MCPrime2 == Halves(32586, 31765)   \* 7F4A7C15
MCPrime3 == Halves(62364, 49248)   \* F39CC060
MCPrime4 == Halves(4202, 41072)    \* 106AA070
(* Those of the program's own calls, and zero. *)
MCSeeds == {Halves(4660, 22136), Halves(42405, 42405), {}}   \* 12345678, A5A5A5A5

MCArecibo == [i \in 0 .. 209 |-> {}]
=============================================================================
