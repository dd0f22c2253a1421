-------------------------------- MODULE QNG --------------------------------
(***************************************************************************)
(* The generator of pascal/tlm_quantum_number_generator.pas: a state of    *)
(* words that each call stirs with a vacuum sample and condenses into a    *)
(* quantum number.  Words have four bytes of ByteBits bits, which makes 32 *)
(* in the code; every rotation is modulo their width.  The columns of the  *)
(* state words are also put through the other codes of Columns.            *)
(***************************************************************************)
EXTENDS Columns

CONSTANTS
  StateWords,     \* 16
  MaxRecursion,   \* 64
  Prime1, Prime2, Prime3, Prime4,   \* as words
  Seeds,          \* the words generators are initialised with
  Sources,        \* indices of the deterministic sources
  MaxSteps        \* bound on the numbers generated

WordBits == 4 * ByteBits
TWord == Word(WordBits)
HalfBits == WordBits \div 2

ASSUME StateAssumption == StateWords \in Nat \ {0, 1} /\ MaxRecursion \in Nat \ {0}
ASSUME PrimeAssumption == {Prime1, Prime2, Prime3, Prime4} \subseteq TWord
ASSUME InputAssumption == Seeds \subseteq TWord /\ Sources \subseteq Nat /\ MaxSteps \in Nat

VARIABLES
  state,        \* Q.State
  depth,        \* Q.Depth and Q.Index, which change together
  lastWord,     \* Q.LastWord
  accumulator,  \* Q.Accumulator
  raw, final    \* results of GenerateQuantumNumber and FullQuantumGeneration

vars == <<state, depth, lastWord, accumulator, raw, final>>

Positions == 0 .. StateWords - 1
W(x) == Bits(x)
RotL(a, k) == RotateLeft(a, k, WordBits)
RotR(a, k) == RotateRight(a, k, WordBits)
Add32(a, b) == Add(a, b, WordBits)
Sub32(a, b) == Sub(a, b, WordBits)
Mul32(a, b) == Mul(a, b, WordBits)

ColumnOf(a) == [i \in 0 .. 3 |-> Byte(a, i, ByteBits)]

MixWord(a) == Pack(MixColumn(ColumnOf(a)), ByteBits)

GravityMix(a, g) == Xor(Add32(RotL(Xor(a, g), 7), Mul32(g, Prime1)), RotR(g, 11))
VacuumMix(a, v) == Add32(Xor(RotR(Xor(a, v), 3), RotL(v, 13)), Prime2)
ModeMix(a, m) == Xor(Add32(RotL(Xor(a, m), 17), Prime3), RotR(m, 9))
EventMix(a, e) == Add32(Xor(RotR(Add32(a, e), 5), RotL(e, 19)), Prime4)

(* The four mixes in the order both FuseVacuumSample and                   *)
(* RecursiveVacuumStep apply them in.                                      *)
MixSample(x, s) ==
  ModeMix(EventMix(VacuumMix(GravityMix(x, s.gravity), s.source), s.event), s.mode)

FuseVacuumSample(s) ==
  MixSample(Xor(Xor(s.source, s.gravity), Xor(s.event, s.mode)), s)

(* Mutant of Normalize: the halves are not folded onto each other. *)
NormalizeUneven(a) ==
  LET x == Xor(a, RotR(a, HalfBits - 1)) IN Add32(Xor(x, RotL(x, 7)), Prime1)

(* NormalizeQuantumNumber. *)
Normalize(a) ==
  LET x == Xor(a, RotR(a, HalfBits)) IN Add32(Xor(x, RotL(x, 7)), Prime1)

(* One level of RecursiveSeed before it recurses. *)
SeedRound(seed, d) ==
  MixWord(Add32(Xor(RotL(seed, (d % 31) + 1), Xor(Prime1, W(d))),
                Mul32(W(d + 1), Prime2)))

RecursiveSeed[d \in 0 .. MaxRecursion + 16] ==
  [seed \in TWord |->
     IF d = 0 THEN seed
     ELSE LET x == SeedRound(seed, d) IN Normalize(Xor(x, RecursiveSeed[d - 1][x]))]

(* Mutant of RecursionDepth: the depth is not wrapped. *)
RecursionDepthWhole(d) == (d % MaxRecursion) + 1

(* QuantumStep passes the depth plus one, RecursiveVacuumStep wraps that.  *)
RecursionDepth(d) == ((d % MaxRecursion) + 1) % MaxRecursion

RecursiveVacuumStep(current, s, d) ==
  LET x == MixWord(MixSample(Xor(FuseVacuumSample(s), current), s))
  IN Normalize(Xor(x, RecursiveSeed[RecursionDepth(d)][Xor(x, current)]))

DeterministicSource(index) ==
  LET x == RecursiveSeed[(index % 8) + 1][Add32(Prime1, W(index))]
  IN [source |-> x,
      gravity |-> GravityMix(x, Xor(Prime2, W(index))),
      event |-> EventMix(x, Xor(Prime3, W(index))),
      mode |-> ModeMix(x, Xor(Prime4, W(index)))]

Sample == [index \in Sources |-> DeterministicSource(index)]

-----------------------------------------------------------------------------
(* InitializeQuantumState. *)
Init ==
  \E seed \in Seeds :
    /\ state = [i \in Positions |->
                  RecursiveSeed[(i % 16) + 1][Xor(seed, Mul32(W(i), Prime1))]]
    /\ depth = 0 /\ lastWord = seed /\ accumulator = seed
    /\ raw = {} /\ final = {}

Accumulated(acc, v) == Add32(RotL(Xor(acc, v), 9), Prime3)

(* Mutant of Injected: the words are stirred without the accumulator. *)
InjectedFused(s) == FuseVacuumSample(s)

(* What InjectSample stirs into every word and accumulates. *)
Injected(s) == Xor(FuseVacuumSample(s), accumulator)

Inject(st, x) == [i \in Positions |-> Xor(st[i], RotL(x, i * 3 + depth))]

RotateState(st) == [i \in Positions |-> st[(i + StateWords - 1) % StateWords]]

Diffused(a, b, i) == MixWord(Add32(Xor(a, RotL(b, i + 3)), Xor(Prime1, W(i))))

(* Mutant of Diffuse: all words from the old ones. *)
DiffuseAtOnce(st) == [i \in Positions |-> Diffused(st[i], st[(i + 1) % StateWords], i)]

(* DiffuseQuantumState, in place: the last word meets the new first one.   *)
Diffuse(st) ==
  LET first == Diffused(st[0], st[1 % StateWords], 0)
  IN [i \in Positions |->
        IF i = 0 THEN first
        ELSE Diffused(st[i], IF i = StateWords - 1 THEN first ELSE st[i + 1], i)]

(* The state words folded into one. *)
Gathered(st) ==
  LET g[i \in Positions] ==
        IF i = 0 THEN st[0] ELSE Xor(g[i - 1], RotL(st[i], i + depth))
  IN g[StateWords - 1]

P3Round(x, d) == RotL(Xor(MixWord(x), x), (d % 31) + 1)

FinalQuantumNumber(x) == Normalize(P3Round(P3Round(P3Round(P3Round(x, 4), 3), 2), 1))

Stirred(s) == Diffuse(RotateState(Inject(state, Injected(s))))

(* FullQuantumGeneration: QuantumStep, the extraction and the P3 rounds.   *)
(* (What \E binds, TLC computes once and first.)                           *)
Generate(s) ==
  \E st \in {Stirred(s)} : \E g \in {Gathered(st)} : \E x \in {RecursiveVacuumStep(g, s, depth)} :
  LET st1 == [st EXCEPT ![0] = Xor(@, x)]
      word == Normalize(x)
      acc == Accumulated(Accumulated(accumulator, Injected(s)), word)
      number == Normalize(MixWord(Xor(Xor(word, acc), st1[(depth + 1) % StateWords])))
  IN /\ state' = st1
     /\ lastWord' = word
     /\ depth' = depth + 1
     /\ accumulator' = acc
     /\ raw' = number
     /\ final' = FinalQuantumNumber(number)

Next ==
  /\ depth < MaxSteps
  /\ \E index \in Sources : Generate(Sample[index])

Spec == Init /\ [][Next]_vars

-----------------------------------------------------------------------------
(* What normalisation leaves of a word: below the golden ratio both halves *)
(* are equal and have an even number of ones.                              *)
Tied(a) ==
  LET x == Sub32(a, Prime1) IN x = RotR(x, HalfBits) /\ Cardinality(x) % 4 = 0

(* The mode and the occupation of every number, its two halves, determine  *)
(* each other: of 2^32 numbers only 2^15 are ever generated.               *)
NumbersTied == depth > 0 => Tied(lastWord) /\ Tied(raw) /\ Tied(final)

(* Diffusion loses nothing of the state, although it works in place: it is *)
(* undone word by word from the last, and mixing by mixing three times.    *)
Undiffused(a, b, i) ==
  Xor(Sub32(MixWord(MixWord(MixWord(a))), Xor(Prime1, W(i))), RotL(b, i + 3))

Undiffuse(st) ==
  LET u[i \in Positions] ==
        Undiffused(st[i], IF i = StateWords - 1 THEN st[0] ELSE u[i + 1], i)
  IN u

DiffusionReversible == Undiffuse(Diffuse(state)) = state

(* The accumulator forgets: after each number it depends on the sample and *)
(* the number alone, because what is accumulated contains the old          *)
(* accumulator, which cancels.                                             *)
AccumulatorForgets ==
  [][\E index \in Sources :
       accumulator' = Accumulated(Accumulated({}, FuseVacuumSample(Sample[index])),
                                  lastWord')]_vars

(* At every MaxRecursion-th number the wrapped depth is 0, the recursive   *)
(* seed is the identity and the fused sample cancels: the word follows     *)
(* from the stirred state alone.                                           *)
SampleCancels ==
  [][depth % MaxRecursion = MaxRecursion - 1 =>
       \E index \in Sources :
         lastWord' = Normalize(Normalize(Gathered(Stirred(Sample[index]))))]_vars

(* The C routine and the Pascal function, which arrange the sums of a row  *)
(* differently, both are the matrix of FIPS 197 over the field that the    *)
(* MUL8 instruction multiplies in: 2 3 1 1, rotated.                       *)
MixIsMatrix ==
  \A p \in Positions :
    LET c == ColumnOf(state[p])
        product == [i \in 0 .. 3 |->
                      Xor(Xor(GfMul(c[i], {1}), GfMul(c[(i + 1) % 4], {0, 1})),
                          Xor(c[(i + 2) % 4], c[(i + 3) % 4]))]
    IN Mix32(c) = product /\ MixColumn(c) = product
=============================================================================
