------------------------------- MODULE Braid -------------------------------
(***************************************************************************)
(* The Fibonacci braid of rust/fibonacci_braid.rs and                      *)
(* python/stealth_obfuscator.py.  A text is split into its even and its    *)
(* odd characters, which are taken from the ends of both strands in        *)
(* portions of Fibonacci sizes; the reverse deals the stream out again and *)
(* interleaves.  There are three variants: Python's, Rust's lossless one   *)
(* and Rust's lossy one, which drops some characters.  A step is one       *)
(* iteration of a loop; StealthObfuscator says who runs the loops.         *)
(***************************************************************************)
EXTENDS Integers, SequencesExt

CONSTANTS
  Variants,    \* those of "python", "lossless" and "lossy" that are run
  Texts,       \* input texts: sequences of code points
  Keys,        \* values of kappa, a byte of the text's hash
  ByteLen(_),  \* String::len of Rust: the bytes of a text
  CodeSize,    \* code points: 16#110000
  Surrogates,  \* code points that are no char of Rust
  Forbidden    \* the characters the lossy braid drops

Codes == 0 .. CodeSize - 1

ASSUME VariantAssumption == Variants \subseteq {"python", "lossless", "lossy"}
ASSUME CodeAssumption ==
  /\ CodeSize \in Nat \ {0} /\ Surrogates \subseteq Codes /\ Keys \subseteq Nat
  /\ Texts \subseteq Seq(Codes \ Surrogates)
ASSUME BytesAssumption == \A t \in Texts : ByteLen(t) \in Nat /\ ByteLen(t) >= Len(t)

VARIABLES
  variant, text, kappa,   \* the call
  phase,                  \* which loop: "braid", "unbraid" or "done"
  left, right,            \* the strands
  stream,                 \* output of the braid, input of the reverse
  cursor,                 \* characters of the stream already dealt out
  n,                      \* round
  restored                \* the result of the reverse

vars == <<variant, text, kappa, phase, left, right, stream, cursor, n, restored>>


(* a and b, round by round. *)
Fib(i) ==
  LET ab[j \in 0 .. i] ==
        IF j = 0 THEN <<0, 1>> ELSE LET last == ab[j - 1] IN <<last[2], last[1] + last[2]>>
  IN ab[i][1]

(* _substitute shifts around the code space; the Rust code keeps a         *)
(* character whose shifted value is none.                                  *)
Shifted(c, k) ==
  CASE variant = "python"   -> (c + k) % CodeSize
    [] variant = "lossless" -> IF c + k \in Codes \ Surrogates THEN c + k ELSE c
    [] variant = "lossy"    -> c

Each(s, k) == [i \in 1 .. Len(s) |-> Shifted(s[i], k)]

(* Every second character from the first, or the second, on. *)
Strand(s, first) == [i \in 1 .. (Len(s) - first) \div 2 + 1 |-> s[2 * i - 2 + first]]

Allowed(s) ==
  LET out[i \in 0 .. Len(s)] ==
        IF i = 0 THEN <<>>
        ELSE IF s[i] \in Forbidden THEN out[i - 1] ELSE Append(out[i - 1], s[i])
  IN out[Len(s)]

Filtered(s) == IF variant = "lossy" THEN Allowed(s) ELSE s

-----------------------------------------------------------------------------
(* The start of _braid, lossless_braid and cryptographic_fibonacci_braid.  *)
Init ==
  /\ variant \in Variants /\ text \in Texts /\ kappa \in Keys
  /\ phase = "braid" /\ n = 1 /\ cursor = 0
  /\ left = Strand(Each(text, kappa), 1) /\ right = Strand(Each(text, kappa), 2)
  /\ stream = <<>> /\ restored = <<>>

Portion(i, len) == Fib(i) % (len + 1)

(* The last k characters, the last first, and the strand without them. *)
Popped(s, k) == Reverse(SubSeq(s, Len(s) - k + 1, Len(s)))

(* Mutant of Shortened: what is taken from the end is removed at the front. *)
ShortenedFront(s, k) == SubSeq(s, k + 1, Len(s))

Shortened(s, k) == SubSeq(s, 1, Len(s) - k)

Taken(s, i) == IF s = <<>> THEN 0 ELSE Portion(i, Len(s))

(* Mutant of NextRound: only a round that takes something counts. *)
NextRoundTaken(taken) == IF taken = 0 THEN n ELSE n + 1

(* The round after one that took so many characters. *)
NextRound(taken) == n + 1

BraidRound ==
  /\ phase = "braid" /\ (left # <<>> \/ right # <<>>)
  /\ LET l == Taken(left, n)
         r == Taken(right, n + 1)
     IN /\ stream' = stream \o Filtered(Popped(left, l)) \o Filtered(Popped(right, r))
        /\ left' = Shortened(left, l) /\ right' = Shortened(right, r)
        /\ n' = NextRound(l + r)
  /\ UNCHANGED <<variant, text, kappa, phase, cursor, restored>>

EndBraid ==
  /\ phase = "braid" /\ left = <<>> /\ right = <<>>
  /\ phase' = "unbraid" /\ n' = 1
  /\ UNCHANGED <<variant, text, kappa, left, right, stream, cursor, restored>>

(* At most k characters of the stream. *)
Dealt(from, k) ==
  SubSeq(stream, from + 1, IF from + k <= Len(stream) THEN from + k ELSE Len(stream))

(* The reverse is told the length of the text.  Python means characters,   *)
(* main of the Rust code bytes.                                            *)
OriginalLen == IF variant = "python" THEN Len(text) ELSE ByteLen(text)

HalfLeft == OriginalLen \div 2
HalfRight == OriginalLen - HalfLeft

UnbraidRound ==
  /\ phase = "unbraid" /\ cursor < Len(stream)
  /\ LET l == Dealt(cursor, Portion(n, HalfLeft))
         r == Dealt(cursor + Len(l), Portion(n + 1, HalfRight))
     IN /\ left' = left \o l /\ right' = right \o r
        /\ cursor' = cursor + Len(l) + Len(r)
        /\ n' = NextRound(Len(l) + Len(r))
  /\ UNCHANGED <<variant, text, kappa, phase, stream, restored>>

Larger(a, b) == IF a > b THEN a ELSE b

(* Rounds of the interleaving loop: the lossless Rust code goes by the     *)
(* halves of original_len, the others by the strands.                      *)
Rounds(l, r) ==
  IF variant = "lossless" THEN Larger(HalfLeft, HalfRight) ELSE Larger(Len(l), Len(r))

(* The i-th of a strand, if it is that long. *)
Opt(s, i) == IF i <= Len(s) THEN <<s[i]>> ELSE <<>>

Merged(l, r, rounds) ==
  LET out[i \in 0 .. rounds] == IF i = 0 THEN <<>> ELSE out[i - 1] \o Opt(l, i) \o Opt(r, i)
  IN out[rounds]

(* Mutant of Interleaved: the right strand comes first. *)
InterleavedRight(l, r) == Merged(r, l, Rounds(l, r))

(* Mutant of Interleaved: the loop goes by the shorter strand. *)
InterleavedShort(l, r) == Merged(l, r, IF Len(l) < Len(r) THEN Len(l) ELSE Len(r))

Interleaved(l, r) == Merged(l, r, Rounds(l, r))

EndUnbraid ==
  /\ phase = "unbraid" /\ cursor >= Len(stream)
  /\ restored' = Each(Interleaved(Reverse(left), Reverse(right)), -kappa)
  /\ phase' = "done"
  /\ UNCHANGED <<variant, text, kappa, left, right, stream, cursor, n>>

-----------------------------------------------------------------------------
Count(s, c) == Cardinality({i \in 1 .. Len(s) : s[i] = c})

(* No round of the braid loses or repeats a character, but for those the   *)
(* lossy braid drops.                                                      *)
BraidKeepsAll ==
  phase = "braid" =>
    \A c \in Codes \ (IF variant = "lossy" THEN Forbidden ELSE {}) :
      Count(left, c) + Count(right, c) + Count(stream, c) = Count(Each(text, kappa), c)

(* What the interleaving leaves out of a strand.  Only the lossless Rust   *)
(* code does: what was dealt out first, if the strand got more than the    *)
(* longer half of original_len.                                            *)
Beyond(s) == IF variant = "lossless" THEN SubSeq(s, 1, Len(s) - HalfRight) ELSE <<>>

(* The reverse gives back every character of the stream, shifted back and  *)
(* often in another place, but for those beyond the halves; the Python     *)
(* code every character of the text.                                       *)
ReverseKeepsAll ==
  phase = "done" =>
    /\ \A c \in Codes :
         Count(restored, c) + Count(Each(Beyond(left), -kappa), c)
             + Count(Each(Beyond(right), -kappa), c)
           = Count(Each(stream, -kappa), c)
    /\ variant = "python" => \A c \in Codes : Count(restored, c) = Count(text, c)

(* Lengths at which the portions dealt out are the portions that were      *)
(* taken: both halves are one or two less than the same Fibonacci number,  *)
(* so that a strand ends when a portion does.  They are 0 to 4, 6 to 8,    *)
(* 12 to 14, 22 to 24, 38 to 40, ...                                       *)
GoodLength ==
  \E j \in 3 .. Len(text) + 3 :
    {Len(text) \div 2, Len(text) - Len(text) \div 2} \subseteq {Fib(j) - 2, Fib(j) - 1}

(* A character that the lossless Rust code cannot shift, although shifting *)
(* it back gives a character.                                              *)
Misread(c) ==
  /\ variant = "lossless"
  /\ c + kappa \notin Codes \ Surrogates /\ c - kappa \in Codes \ Surrogates

(* The text, with the characters that are misread.                         *)
Legible == [i \in 1 .. Len(text) |-> IF Misread(text[i]) THEN text[i] - kappa ELSE text[i]]

Whole == variant = "lossy" => \A i \in 1 .. Len(text) : text[i] \notin Forbidden

Distinct(s) == \A i, j \in 1 .. Len(s) : s[i] = s[j] => i = j
=============================================================================
