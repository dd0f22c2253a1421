------------------------ MODULE MCStealthObfuscator ------------------------
(* Texts of twenty-eight code points, two of them no char, for TLC. *)
EXTENDS StealthObfuscator

(* The characters that are no surrogates and pass the filter.              *)
MCPlain == [i \in 1 .. 25 |-> IF i < 12 THEN i ELSE i + 2]

(* Every text of up to three characters of some that shift into a          *)
(* surrogate, out of the code space or not at all; texts of different      *)
(* characters up to twenty-five; and longer ones with repetitions.         *)
MCTexts ==
  BoundedSeq({0, 9, 27}, 3)
    \cup {SubSeq(MCPlain, 1, m) : m \in 1 .. 25}
    \cup {[i \in 1 .. m |-> i % 3] : m \in {17, 32, 40}}

(* Three characters take two bytes.                                        *)
MCByteLen(t) == Len(t) + Cardinality({i \in 1 .. Len(t) : t[i] \in {9, 10, 27}})

(* A text of good length and one that loses its order.                     *)
MCSealedCalls == {<<SubSeq(MCPlain, 1, 2), 1>>, <<SubSeq(MCPlain, 1, 5), 20>>}

MCSealedTexts == {call[1] : call \in MCSealedCalls}
=============================================================================
