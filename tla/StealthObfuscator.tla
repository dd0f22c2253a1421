------------------------- MODULE StealthObfuscator -------------------------
(***************************************************************************)
(* The pipeline of python/stealth_obfuscator.py.  encrypt braids a text,   *)
(* locks a seed by repeated squaring and splits it into shards of which    *)
(* any k give it back; decrypt takes the shards the parties collected,     *)
(* recovers the seed, checks it against the lock, reverses the braid and   *)
(* compares the checksum.  The loops are those of module Braid, whose Rust *)
(* variants, like a StealthBraider by itself, run without lock and shards. *)
(***************************************************************************)
EXTENDS Braid

CONSTANTS
  SealedCalls,  \* the texts, with their keys, that go through the whole pipeline
  Prime,        \* PRIME: 2^31 - 1
  Modulus,      \* N of the time lock, a product of two primes
  Delay,        \* T: squarings
  Shards,       \* n
  Threshold,    \* values of k
  MaxHeld       \* bound on the shards handed to decrypt

ASSUME PrimeAssumption ==
  /\ Prime \in Nat /\ Prime > 1 /\ \A d \in 2 .. Prime - 1 : Prime % d # 0
  /\ Modulus \in Nat \ {0} /\ Delay \in Nat
ASSUME ShardAssumption ==
  Shards \in 1 .. Prime - 1 /\ Threshold \subseteq 1 .. Shards /\ MaxHeld \in Nat

VARIABLES
  k,         \* the threshold of the artifact
  seed,      \* g of the time lock, the secret that is split
  shards,    \* the points of the polynomial
  locked,    \* vdf_y
  held,      \* shard_subset: the shards collected, in order, perhaps repeated
  recovered, \* what recover returned
  outcome    \* how far the pipeline is, or how it ended

artifact == <<k, seed, shards, locked>>
pipeline == <<artifact, held, recovered, outcome>>

(* Repeated squaring, as lock and verify do it. *)
Squared(g) ==
  LET s[i \in 0 .. Delay] == IF i = 0 THEN g ELSE (s[i - 1] * s[i - 1]) % Modulus
  IN s[Delay]

(* Horner's rule from the last coefficient; the first is the secret.       *)
EvalPoly(coeffs, x) ==
  LET res[i \in 0 .. Len(coeffs)] ==
        IF i = 0 THEN 0 ELSE (res[i - 1] * x + coeffs[Len(coeffs) + 1 - i]) % Prime
  IN res[Len(coeffs)]

Power(b, e) ==
  LET p[i \in 0 .. e] == IF i = 0 THEN 1 ELSE (p[i - 1] * b) % Prime IN p[e]

(* Products over the shards other than the i-th.                           *)
Numerator(s, i) ==
  LET num[j \in 0 .. Len(s)] ==
        IF j = 0 THEN 1 ELSE IF j = i THEN num[j - 1] ELSE (num[j - 1] * (-s[j][1])) % Prime
  IN num[Len(s)]

Denominator(s, i) ==
  LET den[j \in 0 .. Len(s)] ==
        IF j = 0 THEN 1
        ELSE IF j = i THEN den[j - 1] ELSE (den[j - 1] * (s[i][1] - s[j][1])) % Prime
  IN den[Len(s)]

(* Mutant of Term: the denominator is not inverted. *)
TermPlain(s, i) == (s[i][2] * Numerator(s, i) * Denominator(s, i)) % Prime

(* One term of the interpolation at 0, over shards <<x, y>>.               *)
Term(s, i) == (s[i][2] * Numerator(s, i) * Power(Denominator(s, i), Prime - 2)) % Prime

Recover(s) ==
  LET total[i \in 0 .. Len(s)] == IF i = 0 THEN 0 ELSE (total[i - 1] + Term(s, i)) % Prime
  IN total[Len(s)]

-----------------------------------------------------------------------------
Sealing == variant = "python" /\ <<text, kappa>> \in SealedCalls

PipelineInit ==
  /\ Init
  /\ k = 0 /\ seed = 0 /\ shards = {} /\ locked = 0 /\ held = <<>> /\ recovered = 0
  /\ outcome = IF Sealing THEN "sealing" ELSE "bare"

(* encrypt, first the braid of the text ... *)
Braiding == (BraidRound \/ EndBraid) /\ UNCHANGED pipeline

(* ... then lock and shards: g is a hash, below the modulus of the lock.   *)
Seal ==
  /\ phase = "unbraid" /\ outcome = "sealing"
  /\ k' \in Threshold
  /\ seed' \in 0 .. Modulus - 1
  /\ locked' = Squared(seed')
  /\ \E rest \in [1 .. k' - 1 -> 0 .. Prime - 1] :
       shards' = {<<i, EvalPoly(<<seed'>> \o rest, i)>> : i \in 1 .. Shards}
  /\ outcome' = "sealed"
  /\ UNCHANGED <<vars, held, recovered>>

(* A party contributes a shard. *)
Collect ==
  /\ outcome = "sealed" /\ Len(held) < MaxHeld
  /\ \E s \in shards : held' = Append(held, s)
  /\ UNCHANGED <<vars, artifact, recovered, outcome>>

TooFew == Len(held) < k

Refuse ==
  /\ outcome = "sealed" /\ TooFew
  /\ outcome' = "too few"
  /\ UNCHANGED <<vars, artifact, held, recovered>>

Verified(g) == Squared(g) = locked

(* decrypt with shards enough, as far as the time lock.                    *)
Open ==
  /\ outcome = "sealed" /\ ~TooFew
  /\ recovered' = Recover(held)
  /\ outcome' = IF Verified(recovered') THEN "open" ELSE "seed refused"
  /\ UNCHANGED <<vars, artifact, held>>

(* The reverse braid, of an open artifact or of a braid without one.       *)
Reversing == outcome \in {"bare", "open"} /\ UnbraidRound /\ UNCHANGED pipeline

(* The checksum of the text, which the Rust code does not have; no two     *)
(* texts collide.                                                          *)
Verdict(t) ==
  CASE variant # "python" -> outcome
    [] variant = "python" -> IF t = text THEN "text" ELSE "corrupted"

Restore ==
  /\ outcome \in {"bare", "open"} /\ EndUnbraid
  /\ outcome' = Verdict(restored')
  /\ UNCHANGED <<artifact, held, recovered>>

(* What decrypt does without waiting for anybody.                          *)
Running == Braiding \/ Seal \/ Reversing \/ Restore

Next == Running \/ Collect \/ Refuse \/ Open

(* The loops run on: one thread, nothing to wait for.  Nobody need collect *)
(* shards or call decrypt.                                                 *)
Spec == PipelineInit /\ [][Next]_<<vars, pipeline>> /\ WF_<<vars, pipeline>>(Running)

-----------------------------------------------------------------------------
(* Any k or more different shards, in any order, give back the secret,     *)
(* modulo the prime.  The lock refuses it unless the secret and its        *)
(* remainder are squared to the same number, as a secret below the prime   *)
(* is; g is a hash and seldom below it.                                    *)
ThresholdRecovers ==
  outcome \notin {"bare", "sealing", "sealed", "too few"} /\ Distinct(held)
    => /\ recovered = seed % Prime
       /\ outcome = "seed refused" <=> Squared(seed % Prime) # Squared(seed)

(* At a good length the reverse gives back the text, whatever the variant  *)
(* and the width of its characters, less what the filter drops and with    *)
(* the characters that are misread; the Python code finds the checksum     *)
(* right.                                                                  *)
RoundTrip ==
  phase = "done" /\ GoodLength /\ Whole =>
    restored = Legible /\ (variant = "python" => outcome = "text")


(* Both loops end for every text, although rounds of no characters occur:  *)
(* the braid does, and the reverse once the seed is accepted.              *)
Terminates ==
  /\ (phase = "braid") ~> (phase = "unbraid")
  /\ (phase = "unbraid" /\ outcome \in {"bare", "open"}) ~> (phase = "done")

(* decrypt "reconstructs VDF seed from shards": k different shards open    *)
(* every artifact as far as the lock goes.                                 *)
ArtifactOpens ==
  Distinct(held) /\ Len(held) >= k => outcome # "seed refused"
=============================================================================
