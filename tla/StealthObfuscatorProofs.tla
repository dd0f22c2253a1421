---------------------- MODULE StealthObfuscatorProofs ----------------------
(***************************************************************************)
(* Proofs about the braid and its reverse, for every text, every key, any  *)
(* size of the code space and any set of forbidden characters, in the      *)
(* pipeline or without it.  They count: every operation on sequences keeps *)
(* or adds up how often each character occurs.  And about the shares, for  *)
(* every prime and every number of them: any k different ones, in whatever *)
(* order they were collected, give back the seed.  And about the order:    *)
(* from a text whose strands end where a portion does, the reverse deals   *)
(* out the portions that were taken, round by round.                       *)
(***************************************************************************)
EXTENDS StealthObfuscator, SequenceTheorems, FiniteSetTheorems, TLAPS

-----------------------------------------------------------------------------
(* Occurrences in sequences.                                               *)
Places(s, c) == {i \in 1 .. Len(s) : s[i] = c}

LEMMA CountIsPlaces == \A s, c : Count(s, c) = Cardinality(Places(s, c))
BY DEF Count, Places

LEMMA PlacesFinite ==
  ASSUME NEW s \in Seq(Codes), NEW c
  PROVE  IsFiniteSet(Places(s, c)) /\ Count(s, c) \in Nat
<1>1. 1 \in Int /\ Len(s) \in Int
  BY LenProperties
<1>2. IsFiniteSet(1 .. Len(s)) /\ Places(s, c) \subseteq 1 .. Len(s)
  BY <1>1, FS_Interval DEF Places
<1>3. IsFiniteSet(Places(s, c))
  BY <1>2, FS_Subset
<1> QED
  BY <1>3, FS_CardinalityType, CountIsPlaces

(* A set that one-to-one images of two others divide among them is as      *)
(* large as both.                                                          *)
LEMMA TwoParts ==
  ASSUME NEW A, NEW B, NEW C, IsFiniteSet(A), IsFiniteSet(B),
         NEW f \in [A -> C], NEW g \in [B -> C],
         \A x, y \in A : f[x] = f[y] => x = y,
         \A x, y \in B : g[x] = g[y] => x = y,
         \A x \in A, y \in B : f[x] # g[y],
         \A z \in C : (\E x \in A : f[x] = z) \/ (\E y \in B : g[y] = z)
  PROVE  Cardinality(C) = Cardinality(A) + Cardinality(B)
<1> DEFINE F == {f[x] : x \in A}
           G == {g[y] : y \in B}
<1>1. f \in Bijection(A, F) /\ g \in Bijection(B, G)
  BY DEF Bijection, Injection, IsInjective, Surjection
<1>2. IsFiniteSet(F) /\ Cardinality(F) = Cardinality(A)
  BY <1>1, FS_Bijection DEF ExistsBijection
<1>3. IsFiniteSet(G) /\ Cardinality(G) = Cardinality(B)
  BY <1>1, FS_Bijection DEF ExistsBijection
<1>4. F \cap G = {} /\ C = F \cup G
  OBVIOUS
<1>5. Cardinality(F \cup G) = Cardinality(F) + Cardinality(G) - Cardinality(F \cap G)
  BY <1>2, <1>3, FS_Union
<1>6. Cardinality({}) = 0 /\ Cardinality(F) \in Nat /\ Cardinality(G) \in Nat
  BY <1>2, <1>3, FS_EmptySet, FS_CardinalityType
<1> HIDE DEF F, G
<1>7. Cardinality(C) = Cardinality(F) + Cardinality(G) - 0
  BY <1>4, <1>5, <1>6
<1> QED
  BY <1>2, <1>3, <1>6, <1>7

LEMMA CountConcat ==
  ASSUME NEW s \in Seq(Codes), NEW t \in Seq(Codes), NEW c
  PROVE  s \o t \in Seq(Codes) /\ Count(s \o t, c) = Count(s, c) + Count(t, c)
<1> DEFINE A == Places(s, c)
           B == Places(t, c)
           C == Places(s \o t, c)
           f == [x \in A |-> x]
           g == [y \in B |-> Len(s) + y]
<1>1. /\ s \o t \in Seq(Codes) /\ Len(s) \in Nat /\ Len(t) \in Nat
      /\ Len(s \o t) = Len(s) + Len(t)
      /\ \A i \in 1 .. Len(s) + Len(t) : (s \o t)[i] = IF i <= Len(s) THEN s[i] ELSE t[i - Len(s)]
  BY ConcatProperties, LenProperties
<1>2. \A x \in A : x \in 1 .. Len(s) /\ s[x] = c
  BY DEF Places
<1>3. \A y \in B : y \in 1 .. Len(t) /\ t[y] = c
  BY DEF Places
<1>4. \A z : z \in C <=> z \in 1 .. Len(s) + Len(t) /\ (s \o t)[z] = c
  BY <1>1 DEF Places
<1>5. f \in [A -> C]
  <2> SUFFICES ASSUME NEW x \in A PROVE x \in C
    OBVIOUS
  <2> QED
    BY <1>1, <1>2, <1>4
<1>6. g \in [B -> C]
  <2> SUFFICES ASSUME NEW y \in B PROVE Len(s) + y \in C
    OBVIOUS
  <2>1. Len(s) + y \in 1 .. Len(s) + Len(t) /\ ~(Len(s) + y <= Len(s)) /\ (Len(s) + y) - Len(s) = y
    BY <1>1, <1>3
  <2> QED
    BY <1>1, <1>3, <1>4, <2>1
<1>7. \A z \in C : (\E x \in A : f[x] = z) \/ (\E y \in B : g[y] = z)
  <2> SUFFICES ASSUME NEW z \in C PROVE z \in A \/ \E y \in B : Len(s) + y = z
    OBVIOUS
  <2>1. CASE z <= Len(s)
    BY <1>1, <1>4, <2>1 DEF Places
  <2>2. CASE ~(z <= Len(s))
    <3>1. z - Len(s) \in 1 .. Len(t) /\ t[z - Len(s)] = c /\ Len(s) + (z - Len(s)) = z
      BY <1>1, <1>4, <2>2
    <3> QED
      BY <3>1 DEF Places
  <2> QED
    BY <2>1, <2>2
<1>8. /\ \A x, y \in A : f[x] = f[y] => x = y
      /\ \A x, y \in B : g[x] = g[y] => x = y
      /\ \A x \in A, y \in B : f[x] # g[y]
  BY <1>1, <1>2, <1>3
<1>9. IsFiniteSet(A) /\ IsFiniteSet(B)
  BY PlacesFinite
<1> HIDE DEF A, B, C, f, g
<1>10. Cardinality(C) = Cardinality(A) + Cardinality(B)
  BY <1>5, <1>6, <1>7, <1>8, <1>9, TwoParts
<1> QED
  BY <1>1, <1>10, CountIsPlaces DEF A, B, C

LEMMA CountThree ==
  ASSUME NEW a \in Seq(Codes), NEW b \in Seq(Codes), NEW d \in Seq(Codes), NEW c
  PROVE  /\ (a \o b) \o d \in Seq(Codes)
         /\ Count((a \o b) \o d, c) = (Count(a, c) + Count(b, c)) + Count(d, c)
<1> DEFINE ab == a \o b
<1>1. ab \in Seq(Codes) /\ Count(ab, c) = Count(a, c) + Count(b, c)
  BY CountConcat
<1> HIDE DEF ab
<1>2. ab \o d \in Seq(Codes) /\ Count(ab \o d, c) = Count(ab, c) + Count(d, c)
  BY <1>1, CountConcat
<1>3. Count(ab \o d, c) = (Count(a, c) + Count(b, c)) + Count(d, c)
  BY <1>1, <1>2, Zenon
<1> QED
  BY <1>2, <1>3, Zenon DEF ab

LEMMA CountEmpty == \A c : Count(<<>>, c) = 0
<1> SUFFICES ASSUME NEW c PROVE Count(<<>>, c) = 0
  OBVIOUS
<1>1. Places(<<>>, c) = {}
  BY EmptySeq, SMT DEF Places
<1> QED
  BY <1>1, FS_EmptySet, CountIsPlaces

(* Two neighbouring pieces of a sequence. *)
LEMMA CountSplit ==
  ASSUME NEW s \in Seq(Codes), NEW a \in 0 .. Len(s), NEW b \in a .. Len(s), NEW c
  PROVE  /\ SubSeq(s, 1, a) \in Seq(Codes) /\ SubSeq(s, a + 1, b) \in Seq(Codes)
         /\ Len(SubSeq(s, 1, a)) = a /\ Len(SubSeq(s, a + 1, b)) = b - a
         /\ Count(SubSeq(s, 1, b), c) = Count(SubSeq(s, 1, a), c) + Count(SubSeq(s, a + 1, b), c)
<1>1. Len(s) \in Nat /\ \A i \in 1 .. Len(s) : s[i] \in Codes
  BY LenProperties, ElementOfSeq
<1>2. 1 \in Int /\ a \in Int /\ b \in Int /\ a + 1 \in Int
  BY <1>1, SMT
<1>3. (\A i \in 1 .. a : s[i] \in Codes) /\ (\A i \in a + 1 .. b : s[i] \in Codes)
  BY <1>1, SMT
<1>4. SubSeq(s, 1, a) \in Seq(Codes) /\ Len(SubSeq(s, 1, a)) = IF 1 <= a THEN a - 1 + 1 ELSE 0
  BY <1>2, <1>3, SubSeqProperties
<1>5. /\ SubSeq(s, a + 1, b) \in Seq(Codes)
      /\ Len(SubSeq(s, a + 1, b)) = IF a + 1 <= b THEN b - (a + 1) + 1 ELSE 0
  BY <1>2, <1>3, SubSeqProperties
<1>6. 1 \in 1 .. Len(s) + 1 /\ a \in 1 - 1 .. Len(s) /\ b \in a .. Len(s)
  BY <1>1, SMT
<1>7. SubSeq(s, 1, a) \o SubSeq(s, a + 1, b) = SubSeq(s, 1, b)
  BY <1>6, ConcatAdjacentSubSeq
<1>8. Count(SubSeq(s, 1, b), c) = Count(SubSeq(s, 1, a), c) + Count(SubSeq(s, a + 1, b), c)
  <2> DEFINE p == SubSeq(s, 1, a)
             q == SubSeq(s, a + 1, b)
  <2>1. p \in Seq(Codes) /\ q \in Seq(Codes)
    BY <1>4, <1>5
  <2> HIDE DEF p, q
  <2>2. Count(p \o q, c) = Count(p, c) + Count(q, c)
    BY <2>1, CountConcat
  <2> QED
    BY <1>7, <2>2 DEF p, q
<1> QED
  BY <1>1, <1>4, <1>5, <1>8, SMT

LEMMA CountAll ==
  ASSUME NEW s \in Seq(Codes), NEW a \in 0 .. Len(s), NEW c
  PROVE  Count(s, c) = Count(SubSeq(s, 1, a), c) + Count(SubSeq(s, a + 1, Len(s)), c)
<1>1. Len(s) \in a .. Len(s)
  BY LenProperties, SMT
<1>2. SubSeq(s, 1, Len(s)) = s
  BY SubSeqFull
<1>3. Count(SubSeq(s, 1, Len(s)), c) = Count(SubSeq(s, 1, a), c) + Count(SubSeq(s, a + 1, Len(s)), c)
  BY <1>1, CountSplit
<1> QED
  BY <1>2, <1>3, Zenon

LEMMA CountReverse ==
  ASSUME NEW s \in Seq(Codes), NEW c
  PROVE  /\ Reverse(s) \in Seq(Codes) /\ Len(Reverse(s)) = Len(s)
         /\ Count(Reverse(s), c) = Count(s, c)
<1> DEFINE A == Places(s, c)
           C == Places(Reverse(s), c)
           f == [x \in A |-> Len(s) - x + 1]
           g == [y \in {} |-> y]
<1>1. Len(s) \in Nat /\ \A i \in 1 .. Len(s) : s[i] \in Codes
  BY LenProperties, ElementOfSeq
<1>2. \A i \in 1 .. Len(s) : (Len(s) - i) + 1 \in 1 .. Len(s) /\ Len(s) - ((Len(s) - i) + 1) + 1 = i
  BY <1>1, SMT
<1>3. Reverse(s) \in [1 .. Len(s) -> Codes]
  BY <1>1, <1>2 DEF Reverse
<1>4. Reverse(s) \in Seq(Codes) /\ Len(Reverse(s)) = Len(s)
  BY <1>1, <1>3, IsASeq, LenProperties
<1>5. \A i \in 1 .. Len(s) : Reverse(s)[i] = s[(Len(s) - i) + 1]
  BY DEF Reverse
<1>6. f \in [A -> C]
  <2> SUFFICES ASSUME NEW x \in A PROVE Len(s) - x + 1 \in C
    OBVIOUS
  <2>1. x \in 1 .. Len(s) /\ s[x] = c
    BY DEF Places
  <2> QED
    BY <1>2, <1>4, <1>5, <2>1 DEF Places
<1>7. \A z \in C : \E x \in A : f[x] = z
  <2> SUFFICES ASSUME NEW z \in C PROVE \E x \in A : Len(s) - x + 1 = z
    OBVIOUS
  <2>1. z \in 1 .. Len(s) /\ s[(Len(s) - z) + 1] = c
    BY <1>4, <1>5 DEF Places
  <2> QED
    BY <1>2, <2>1 DEF Places
<1>8. \A x, y \in A : f[x] = f[y] => x = y
  <2> SUFFICES ASSUME NEW x \in A, NEW y \in A, Len(s) - x + 1 = Len(s) - y + 1 PROVE x = y
    OBVIOUS
  <2> QED
    BY <1>1, SMT DEF Places
<1>9. IsFiniteSet(A) /\ IsFiniteSet({}) /\ Cardinality({}) = 0 /\ Cardinality(A) \in Nat
  BY PlacesFinite, FS_EmptySet, FS_CardinalityType
<1>10. g \in [{} -> C]
  OBVIOUS
<1> DEFINE B == {}
<1>11. /\ IsFiniteSet(B) /\ g \in [B -> C] /\ \A x, y \in B : g[x] = g[y] => x = y
       /\ \A x \in A, y \in B : f[x] # g[y]
  BY <1>9, <1>10
<1> HIDE DEF A, B, C, f, g
<1>12. Cardinality(C) = Cardinality(A) + Cardinality(B)
  BY <1>6, <1>7, <1>8, <1>9, <1>11, TwoParts
<1>13. Cardinality(C) = Cardinality(A) + Cardinality({})
  BY <1>12 DEF B
<1> QED
  BY <1>4, <1>9, <1>13, CountIsPlaces DEF A, C

(* What the loops over two strands append: nothing or one character.       *)
UpTo(s, i) == SubSeq(s, 1, IF i <= Len(s) THEN i ELSE Len(s))

LEMMA CountOpt ==
  ASSUME NEW s \in Seq(Codes), NEW i \in Nat \ {0}, NEW c
  PROVE  /\ Opt(s, i) \in Seq(Codes)
         /\ Count(UpTo(s, i), c) = Count(UpTo(s, i - 1), c) + Count(Opt(s, i), c)
<1>1. Len(s) \in Nat /\ \A j \in 1 .. Len(s) : s[j] \in Codes
  BY LenProperties, ElementOfSeq
<1>2. CASE i <= Len(s)
  <2>1. i - 1 \in 0 .. Len(s) /\ i \in i - 1 .. Len(s) /\ (i - 1) + 1 = i /\ i - 1 <= Len(s) /\ i \in 1 .. Len(s)
    BY <1>1, <1>2, SMT
  <2>2. Count(SubSeq(s, 1, i), c) = Count(SubSeq(s, 1, i - 1), c) + Count(SubSeq(s, i, i), c)
    BY <2>1, CountSplit
  <2>3. SubSeq(s, i, i) = SubSeq(s, i, i - 1) \o <<s[i]>> /\ SubSeq(s, i, i - 1) = <<>>
    <3>1. i \in i .. Len(s) /\ i \in Int /\ i - 1 \in Int /\ i - 1 < i
      BY <1>2, <1>1, SMT
    <3> QED
      BY <2>1, <3>1, SubSeqRecursiveSecond, SubSeqEmpty
  <2>4. <<s[i]>> \in Seq(Codes) /\ <<>> \o <<s[i]>> = <<s[i]>>
    BY <1>1, <2>1
  <2> QED
    BY <1>2, <2>1, <2>2, <2>3, <2>4 DEF Opt, UpTo
<1>3. CASE ~(i <= Len(s))
  <2>1. UpTo(s, i) = SubSeq(s, 1, Len(s)) /\ Opt(s, i) = <<>>
    BY <1>3 DEF UpTo, Opt
  <2>2. UpTo(s, i - 1) = SubSeq(s, 1, Len(s))
    <3>1. i - 1 <= Len(s) => i - 1 = Len(s)
      BY <1>1, <1>3, SMT
    <3> QED
      BY <3>1 DEF UpTo
  <2>3. Count(SubSeq(s, 1, Len(s)), c) \in Nat
    BY SubSeqFull, PlacesFinite
  <2>4. Count(<<>>, c) = 0 /\ <<>> \in Seq(Codes)
    BY CountEmpty
  <2>5. Count(UpTo(s, i), c) = Count(UpTo(s, i - 1), c) /\ Count(UpTo(s, i), c) \in Nat
    BY <2>1, <2>2, <2>3, Zenon
  <2>6. Count(Opt(s, i), c) = 0 /\ Opt(s, i) \in Seq(Codes)
    BY <2>1, <2>4, Zenon
  <2> HIDE DEF UpTo
  <2> QED
    BY <2>5, <2>6
<1> QED
  BY <1>2, <1>3

-----------------------------------------------------------------------------
(* Induction, and recursive functions. *)
LEMMA LeastElement ==
  ASSUME NEW T \in SUBSET Nat, T # {} PROVE \E x \in T : \A y \in T : x <= y
<1> DEFINE R == OpToRel(<, Nat)
<1>1. IsWellFoundedOn(R, Nat)
  BY NatLessThanWellFounded
<1>2. \A x, y \in Nat : x < y => <<x, y>> \in R
  BY DEF OpToRel
<1> HIDE DEF R
<1>3. PICK x \in T : \A y \in T : ~ (<<y, x>> \in R)
  BY <1>1, WFMin
<1>4. \A y \in T : ~(y < x)
  BY <1>2, <1>3
<1>5. \A y \in T : x <= y
  BY <1>4, SMT
<1> QED
  BY <1>5

(* A recursion over 0 .. len defines a function.                           *)
Recursion(h, len, base, step) ==
  h = [i \in 0 .. len |-> IF i = 0 THEN base ELSE step[i][h[i - 1]]]

LEMMA ByRecursion ==
  ASSUME NEW len \in Nat, NEW R, NEW base \in R, NEW step \in [0 .. len -> [R -> R]]
  PROVE  \E h \in [0 .. len -> R] : Recursion(h, len, base, step)
<1> USE DEF Recursion
<1> DEFINE Good(m, h) == Recursion(h, m, base, step)
           T == {m \in 0 .. len : ~ \E h \in [0 .. m -> R] : Good(m, h)}
<1> SUFFICES ASSUME T # {} PROVE FALSE
  BY len \in 0 .. len
<1>1. PICK m \in T : \A j \in T : m <= j
  <2>1. T \in SUBSET Nat
    OBVIOUS
  <2> QED
    BY <2>1, LeastElement
<1>2. CASE m = 0
  <2> DEFINE h == [i \in 0 .. 0 |-> base]
  <2>1. \A i \in 0 .. 0 : i = 0
    BY SMT
  <2>2. h \in [0 .. 0 -> R] /\ Good(0, h)
    BY <2>1
  <2> HIDE DEF h
  <2> QED
    BY <1>2, <2>2
<1>3. CASE m # 0
  <2> DEFINE j == m - 1
  <2>1. j \in 0 .. len /\ m = j + 1 /\ ~(m <= j)
    BY <1>3, SMT
  <2>2. PICK g \in [0 .. j -> R] : Good(j, g)
    BY <1>1, <2>1
  <2> DEFINE h == [i \in 0 .. m |-> IF i = m THEN step[m][g[j]] ELSE g[i]]
  <2>3. \A i \in 0 .. m : i \in 0 .. j \/ i = m
    BY <2>1, SMT
  <2>4. \A i \in 0 .. j : i # m /\ i \in 0 .. m /\ j \in 0 .. j
    BY <2>1, SMT
  <2>5. \A i \in 0 .. m : i # 0 => i - 1 \in 0 .. j
    BY <2>1, SMT
  <2>6. m \in 0 .. len
    OBVIOUS
  <2>7. h \in [0 .. m -> R]
    <3>1. j \in 0 .. j
      BY <2>1, SMT
    <3>2. step[m] \in [R -> R] /\ g[j] \in R
      BY <2>6, <3>1
    <3>3. step[m][g[j]] \in R
      BY <3>2
    <3>4. \A i \in 0 .. m : h[i] \in R
      BY <2>3, <3>3
    <3>5. h = [i \in 0 .. m |-> h[i]]
      OBVIOUS
    <3> HIDE DEF h
    <3> QED
      BY <3>4, <3>5
  <2>8. ASSUME NEW i \in 0 .. m
        PROVE  h[i] = IF i = 0 THEN base ELSE step[i][h[i - 1]]
    <3>1. CASE i = m
      <4>1. h[i - 1] = g[j]
        BY <1>3, <2>4, <2>5, <3>1
      <4> QED
        BY <1>3, <3>1, <4>1
    <3>2. CASE i # m
      <4>1. i \in 0 .. j
        BY <2>3, <3>2
      <4>2. h[i] = g[i] /\ (i # 0 => h[i - 1] = g[i - 1])
        BY <2>4, <2>5, <3>2, <4>1
      <4>3. g[i] = IF i = 0 THEN base ELSE step[i][g[i - 1]]
        BY <2>2, <4>1
      <4> HIDE DEF h
      <4> QED
        BY <4>2, <4>3
    <3> QED
      BY <3>1, <3>2
  <2>9. h = [i \in 0 .. m |-> h[i]]
    OBVIOUS
  <2> HIDE DEF h
  <2>10. Good(m, h)
    BY <2>8, <2>9
  <2> QED
    BY <2>7, <2>10
<1> QED
  BY <1>2, <1>3

(* Two sequences in which equal members have equal successors. *)
Parallel(f, g, len) == f[0] = g[0] /\ \A i \in 1 .. len : f[i - 1] = g[i - 1] => f[i] = g[i]

LEMMA SameRecursion ==
  ASSUME NEW len \in Nat, NEW f, NEW g, Parallel(f, g, len)
  PROVE  \A i \in 0 .. len : f[i] = g[i]
<1> DEFINE T == {i \in 0 .. len : f[i] # g[i]}
<1> SUFFICES ASSUME T # {} PROVE FALSE
  OBVIOUS
<1>1. PICK m \in T : \A i \in T : m <= i
  <2>1. T \in SUBSET Nat
    BY SMT
  <2> HIDE DEF T
  <2> QED
    BY <2>1, LeastElement
<1>2. m \in 1 .. len /\ m - 1 \in 0 .. len /\ ~(m <= m - 1)
  BY SMT DEF Parallel
<1>3. f[m - 1] = g[m - 1]
  BY <1>1, <1>2
<1> QED
  BY <1>2, <1>3 DEF Parallel

(* Two sequences of numbers with the same start and the same differences.  *)
LEMMA SameSteps ==
  ASSUME NEW len \in Nat, NEW f \in [0 .. len -> Int], NEW g \in [0 .. len -> Int], f[0] = g[0],
         \A i \in 1 .. len : f[i] - f[i - 1] = g[i] - g[i - 1]
  PROVE  \A i \in 0 .. len : f[i] = g[i]
<1> DEFINE T == {i \in 0 .. len : f[i] # g[i]}
<1> SUFFICES ASSUME T # {} PROVE FALSE
  OBVIOUS
<1>1. PICK m \in T : \A i \in T : m <= i
  <2>1. T \in SUBSET Nat
    BY SMT
  <2> HIDE DEF T
  <2> QED
    BY <2>1, LeastElement
<1>2. m \in 1 .. len /\ m - 1 \in 0 .. len /\ ~(m <= m - 1)
  BY SMT
<1>3. f[m - 1] = g[m - 1]
  BY <1>1, <1>2
<1>4. f[m] \in Int /\ g[m] \in Int /\ f[m - 1] \in Int /\ f[m] # g[m]
  BY <1>2
<1> QED
  BY <1>2, <1>3, <1>4

(* The pairs that fib computes. *)
FibLoop(h, i) ==
  h[0] = <<0, 1>> /\ \A j \in 1 .. i : h[j] = <<h[j - 1][2], h[j - 1][1] + h[j - 1][2]>>

LEMMA FibSteps ==
  ASSUME NEW i \in Nat
  PROVE  \E h \in [0 .. i -> Nat \X Nat] : FibLoop(h, i) /\ Fib(i) = h[i][1]
<1> DEFINE Pairs == Nat \X Nat
           step == [j \in 0 .. i |-> [p \in Pairs |-> <<p[2], p[1] + p[2]>>]]
           Body(h) == h = [j \in 0 .. i |->
                             IF j = 0 THEN <<0, 1>>
                             ELSE LET last == h[j - 1] IN <<last[2], last[1] + last[2]>>]
<1>1. <<0, 1>> \in Pairs
  OBVIOUS
<1>2. step \in [0 .. i -> [Pairs -> Pairs]]
  <2>1. \A p \in Pairs : <<p[2], p[1] + p[2]>> \in Pairs
    BY SMT
  <2> QED
    BY <2>1
<1> HIDE DEF step
<1>3. PICK h \in [0 .. i -> Pairs] : Recursion(h, i, <<0, 1>>, step)
  <2> HIDE DEF Pairs
  <2> QED
    BY <1>1, <1>2, ByRecursion
<1>4. h = [j \in 0 .. i |-> IF j = 0 THEN <<0, 1>> ELSE step[j][h[j - 1]]]
  BY <1>3 DEF Recursion
<1>5. ASSUME NEW j \in 0 .. i, j # 0
      PROVE  step[j][h[j - 1]] = <<h[j - 1][2], h[j - 1][1] + h[j - 1][2]>>
  <2>1. j - 1 \in 0 .. i
    BY <1>5, SMT
  <2>2. h[j - 1] \in Pairs
    BY <1>3, <2>1
  <2> QED
    BY <2>2 DEF step
<1>6. Body(h)
  BY <1>4, <1>5, Zenon
<1>7. PICK ab : Body(ab) /\ Fib(i) = ab[i][1]
  <2>1. Fib(i) = (CHOOSE g : Body(g))[i][1]
    BY DEF Fib
  <2> QED
    BY <1>6, <2>1
<1>8. ab[0] = h[0] /\ \A j \in 1 .. i : ab[j - 1] = h[j - 1] => ab[j] = h[j]
  <2> DEFINE Successor(p) == <<p[2], p[1] + p[2]>>
  <2>1. 0 \in 0 .. i /\ \A j \in 1 .. i : j \in 0 .. i /\ j # 0
    BY SMT
  <2>2. \A j \in 0 .. i : ab[j] = IF j = 0 THEN <<0, 1>> ELSE Successor(ab[j - 1])
    BY <1>7, Zenon
  <2>3. \A j \in 0 .. i : h[j] = IF j = 0 THEN <<0, 1>> ELSE Successor(h[j - 1])
    BY <1>6, Zenon
  <2> HIDE DEF Successor
  <2> QED
    BY <2>1, <2>2, <2>3, Zenon
<1>9. ab[i] = h[i] /\ h[i] \in Pairs
  <2> HIDE DEF Pairs, Body
  <2>1. \A j \in 0 .. i : ab[j] = h[j]
    <3>1. Parallel(ab, h, i)
      BY <1>8 DEF Parallel
    <3> QED
      BY <3>1, SameRecursion
  <2>2. i \in 0 .. i
    BY SMT
  <2> QED
    BY <1>3, <2>1, <2>2
<1>10. FibLoop(h, i)
  <2> DEFINE Successor(p) == <<p[2], p[1] + p[2]>>
  <2>1. 0 \in 0 .. i /\ \A j \in 1 .. i : j \in 0 .. i /\ j # 0
    BY SMT
  <2>2. \A j \in 0 .. i : h[j] = IF j = 0 THEN <<0, 1>> ELSE Successor(h[j - 1])
    BY <1>6, Zenon
  <2> HIDE DEF Successor
  <2>3. h[0] = <<0, 1>> /\ \A j \in 1 .. i : h[j] = Successor(h[j - 1])
    BY <2>1, <2>2, Zenon
  <2> QED
    BY <2>3 DEF FibLoop, Successor
<1> QED
  BY <1>3, <1>7, <1>9, <1>10, Zenon

LEMMA FibIsNatural == \A i \in Nat : Fib(i) \in Nat
<1> SUFFICES ASSUME NEW i \in Nat PROVE Fib(i) \in Nat
  OBVIOUS
<1>1. PICK h \in [0 .. i -> Nat \X Nat] : Fib(i) = h[i][1]
  BY FibSteps
<1>2. i \in 0 .. i
  BY SMT
<1> QED
  BY <1>1, <1>2

-----------------------------------------------------------------------------
(* What the operations of the braid do to the counts.                      *)
LEMMA CountOther ==
  ASSUME NEW x, NEW c, x # c PROVE Count(<<x>>, c) = 0
<1>1. Places(<<x>>, c) = {}
  BY DEF Places
<1> QED
  BY <1>1, FS_EmptySet, CountIsPlaces

(* The filter keeps what is not forbidden. *)
AllowedLoop(h, s) ==
  /\ h[0] = <<>>
  /\ \A i \in 1 .. Len(s) :
       h[i] = IF s[i] \in Forbidden THEN h[i - 1] ELSE Append(h[i - 1], s[i])

LEMMA AllowedSteps ==
  ASSUME NEW s \in Seq(Codes)
  PROVE  \E h \in [0 .. Len(s) -> Seq(Codes \ Forbidden)] :
           AllowedLoop(h, s) /\ Allowed(s) = h[Len(s)]
<1>1. PICK len : len = Len(s)
  OBVIOUS
<1> DEFINE R == Seq(Codes \ Forbidden)
           Grown(o, i) == IF s[i] \in Forbidden THEN o ELSE Append(o, s[i])
           step == [i \in 0 .. len |-> [o \in R |-> IF i = 0 THEN o ELSE Grown(o, i)]]
           Body(h) == h = [i \in 0 .. len |->
                             IF i = 0 THEN <<>>
                             ELSE IF s[i] \in Forbidden THEN h[i - 1] ELSE Append(h[i - 1], s[i])]
<1>2. len \in Nat /\ \A i \in 1 .. len : s[i] \in Codes
  BY <1>1, LenProperties, ElementOfSeq
<1>3. <<>> \in R
  BY EmptySeq
<1>4. step \in [0 .. len -> [R -> R]]
  <2>1. ASSUME NEW i \in 0 .. len, NEW o \in R PROVE (IF i = 0 THEN o ELSE Grown(o, i)) \in R
    <3>1. CASE i = 0
      BY <3>1
    <3>2. CASE i # 0
      <4>1. s[i] \notin Forbidden => s[i] \in Codes \ Forbidden
        BY <1>2, <3>2
      <4>2. s[i] \notin Forbidden => Append(o, s[i]) \in R
        BY <4>1, AppendProperties
      <4> QED
        BY <3>2, <4>2
    <3> QED
      BY <3>1, <3>2
  <2> HIDE DEF Grown, R
  <2> QED
    BY <2>1
<1> HIDE DEF step, R
<1>5. PICK h : h \in [0 .. len -> R] /\ Recursion(h, len, <<>>, step)
  BY <1>2, <1>3, <1>4, ByRecursion
<1>6. \A i \in 0 .. len : i # 0 => i - 1 \in 0 .. len /\ h[i - 1] \in R
  <2>1. \A i \in 0 .. len : i # 0 => i - 1 \in 0 .. len
    BY <1>2, SMT
  <2> QED
    BY <1>5, <2>1
<1>7. ASSUME NEW i \in 0 .. len, i # 0 PROVE step[i][h[i - 1]] = Grown(h[i - 1], i)
  <2> HIDE DEF Grown
  <2> QED
    BY <1>6, <1>7 DEF step
<1>8. Body(h)
  <2>1. h = [i \in 0 .. len |-> IF i = 0 THEN <<>> ELSE step[i][h[i - 1]]]
    BY <1>5 DEF Recursion
  <2> QED
    BY <1>7, <2>1, Zenon
<1>9. PICK out : Body(out) /\ Allowed(s) = out[len]
  <2>1. Allowed(s) = (CHOOSE g : Body(g))[len]
    BY <1>1 DEF Allowed
  <2> QED
    BY <1>8, <2>1
<1>10. 0 \in 0 .. len /\ len \in 0 .. len /\ \A j \in 1 .. len : j \in 0 .. len /\ j # 0
  BY <1>2, SMT
<1>11. \A i \in 0 .. len : h[i] = IF i = 0 THEN <<>> ELSE Grown(h[i - 1], i)
  BY <1>8, Zenon
<1>12. \A i \in 0 .. len : out[i] = h[i]
  <2>1. \A i \in 0 .. len : out[i] = IF i = 0 THEN <<>> ELSE Grown(out[i - 1], i)
    BY <1>9, Zenon
  <2> HIDE DEF Grown, Body
  <2>2. out[0] = h[0]
    BY <1>10, <1>11, <2>1
  <2>3. \A i \in 1 .. len : out[i - 1] = h[i - 1] => out[i] = h[i]
    BY <1>10, <1>11, <2>1
  <2>4. len \in Nat
    BY <1>2
  <2>5. Parallel(out, h, len)
    BY <2>2, <2>3 DEF Parallel
  <2> QED
    BY <2>4, <2>5, SameRecursion
<1>13. h[0] = <<>> /\ \A i \in 1 .. len : h[i] = Grown(h[i - 1], i)
  <2> HIDE DEF Grown
  <2> QED
    BY <1>10, <1>11, Zenon
<1>14. AllowedLoop(h, s)
  BY <1>1, <1>13 DEF AllowedLoop
<1>15. Allowed(s) = h[len]
  BY <1>9, <1>10, <1>12, Zenon
<1> QED
  BY <1>1, <1>5, <1>14, <1>15 DEF R

LEMMA CountAllowed ==
  ASSUME NEW s \in Seq(Codes), NEW c
  PROVE  /\ Allowed(s) \in Seq(Codes)
         /\ c \notin Forbidden => Count(Allowed(s), c) = Count(s, c)
<1>1. PICK len : len = Len(s)
  OBVIOUS
<1> DEFINE Grown(o, i) == IF s[i] \in Forbidden THEN o ELSE Append(o, s[i])
<1>2. len \in Nat /\ \A i \in 1 .. len : s[i] \in Codes
  BY <1>1, LenProperties, ElementOfSeq
<1>3. PICK h \in [0 .. len -> Seq(Codes \ Forbidden)] : AllowedLoop(h, s) /\ Allowed(s) = h[len]
  BY <1>1, AllowedSteps
<1>4. h \in [0 .. len -> Seq(Codes)]
  <2>1. Seq(Codes \ Forbidden) \subseteq Seq(Codes)
    BY SeqMonotonic
  <2> QED
    BY <2>1
<1>5. 0 \in 0 .. len /\ len \in 0 .. len /\ \A j \in 1 .. len : j \in 0 .. len /\ j # 0
  BY <1>2, SMT
<1>6. h[0] = <<>> /\ \A i \in 1 .. len : h[i] = Grown(h[i - 1], i)
  BY <1>1, <1>3 DEF AllowedLoop
<1>7. Allowed(s) \in Seq(Codes) /\ Allowed(s) = h[len]
  BY <1>3, <1>4, <1>5
<1> SUFFICES ASSUME c \notin Forbidden PROVE Count(Allowed(s), c) = Count(s, c)
  BY <1>7
<1> DEFINE f == [i \in 0 .. len |-> Count(h[i], c)]
           g == [i \in 0 .. len |-> Count(UpTo(s, i), c)]
<1>8. \A i \in 0 .. len : UpTo(s, i) \in Seq(Codes)
  <2> SUFFICES ASSUME NEW i \in 0 .. len PROVE UpTo(s, i) \in Seq(Codes)
    OBVIOUS
  <2>1. i \in 0 .. Len(s) /\ i \in i .. Len(s) /\ i <= Len(s)
    BY <1>1, <1>2, SMT
  <2> QED
    BY <2>1, CountSplit DEF UpTo
<1>9. f \in [0 .. len -> Int] /\ g \in [0 .. len -> Int]
  BY <1>4, <1>8, PlacesFinite, SMT
<1>10. f[0] = g[0]
  <2>1. UpTo(s, 0) = <<>>
    <3>1. 0 <= Len(s) /\ 1 \in Int /\ 0 \in Int /\ 0 < 1
      BY <1>1, <1>2, SMT
    <3> QED
      BY <3>1, SubSeqEmpty DEF UpTo
  <2> QED
    BY <1>5, <1>6, <2>1
<1>11. ASSUME NEW i \in 1 .. len PROVE f[i] - f[i - 1] = g[i] - g[i - 1]
  <2>1. i \in 0 .. len /\ i # 0 /\ i - 1 \in 0 .. len /\ i \in Nat \ {0} /\ i <= Len(s)
    BY <1>1, <1>2, SMT
  <2>2. s[i] \in Codes /\ h[i - 1] \in Seq(Codes) /\ <<s[i]>> \in Seq(Codes)
    BY <1>2, <1>4, <2>1
  <2>3. Count(UpTo(s, i), c) = Count(UpTo(s, i - 1), c) + Count(<<s[i]>>, c)
    <3>1. Opt(s, i) = <<s[i]>>
      BY <2>1 DEF Opt
    <3> QED
      BY <2>1, <3>1, CountOpt
  <2>4. Count(h[i], c) = Count(h[i - 1], c) + Count(<<s[i]>>, c)
    <3>1. h[i] = Grown(h[i - 1], i)
      BY <1>6
    <3>2. CASE s[i] \in Forbidden
      <4>1. Count(<<s[i]>>, c) = 0
        BY <3>2, CountOther
      <4>2. Count(h[i - 1], c) \in Nat /\ h[i] = h[i - 1]
        BY <2>2, <3>1, <3>2, PlacesFinite
      <4> QED
        BY <4>1, <4>2
    <3>3. CASE s[i] \notin Forbidden
      <4>1. h[i] = h[i - 1] \o <<s[i]>>
        BY <2>2, <3>1, <3>3, AppendIsConcat
      <4>2. \A o, p \in Seq(Codes) : Count(o \o p, c) = Count(o, c) + Count(p, c)
        BY CountConcat
      <4>3. Count(h[i - 1] \o <<s[i]>>, c) = Count(h[i - 1], c) + Count(<<s[i]>>, c)
        BY <2>2, <4>2, Zenon
      <4> QED
        BY <4>1, <4>3, Zenon
    <3> QED
      BY <3>2, <3>3
  <2>5. /\ Count(h[i - 1], c) \in Nat /\ Count(UpTo(s, i - 1), c) \in Nat
        /\ Count(<<s[i]>>, c) \in Nat
    BY <1>8, <2>1, <2>2, PlacesFinite
  <2>6. /\ f[i] = Count(h[i], c) /\ f[i - 1] = Count(h[i - 1], c)
        /\ g[i] = Count(UpTo(s, i), c) /\ g[i - 1] = Count(UpTo(s, i - 1), c)
    BY <2>1
  <2> HIDE DEF f, g
  <2> QED
    BY <2>3, <2>4, <2>5, <2>6
<1> HIDE DEF f, g
<1>12. \A i \in 0 .. len : f[i] = g[i]
  BY <1>2, <1>9, <1>10, <1>11, SameSteps
<1>13. Count(h[len], c) = Count(UpTo(s, len), c)
  BY <1>5, <1>12 DEF f, g
<1>14. UpTo(s, len) = s
  BY <1>1, SubSeqFull DEF UpTo
<1> QED
  BY <1>7, <1>13, <1>14

(* The interleaving, round by round. *)
MergedLoop(h, l, r, rounds) ==
  h[0] = <<>> /\ \A i \in 1 .. rounds : h[i] = h[i - 1] \o Opt(l, i) \o Opt(r, i)

LEMMA MergedSteps ==
  ASSUME NEW l \in Seq(Codes), NEW r \in Seq(Codes), NEW rounds \in Nat
  PROVE  \E h \in [0 .. rounds -> Seq(Codes)] :
           MergedLoop(h, l, r, rounds) /\ Merged(l, r, rounds) = h[rounds]
<1> DEFINE R == Seq(Codes)
           Grown(o, i) == o \o Opt(l, i) \o Opt(r, i)
           step == [i \in 0 .. rounds |-> [o \in R |-> IF i = 0 THEN o ELSE Grown(o, i)]]
           Body(h) == h = [i \in 0 .. rounds |->
                             IF i = 0 THEN <<>> ELSE h[i - 1] \o Opt(l, i) \o Opt(r, i)]
<1>1. 0 \in 0 .. rounds /\ rounds \in 0 .. rounds /\ \A j \in 1 .. rounds : j \in 0 .. rounds /\ j # 0
  BY SMT
<1>2. \A i \in 0 .. rounds : i # 0 => i \in Nat \ {0} /\ i - 1 \in 0 .. rounds /\ i \in 1 .. rounds
  BY SMT
<1>3. \A o, p \in Seq(Codes) : o \o p \in Seq(Codes)
  BY ConcatProperties
<1>4. \A i \in 0 .. rounds : i # 0 => Opt(l, i) \in Seq(Codes) /\ Opt(r, i) \in Seq(Codes)
  BY <1>2, CountOpt
<1>5. <<>> \in R
  BY EmptySeq
<1>6. step \in [0 .. rounds -> [R -> R]]
  <2>1. ASSUME NEW i \in 0 .. rounds, NEW o \in R PROVE (IF i = 0 THEN o ELSE Grown(o, i)) \in R
    <3>1. CASE i = 0
      BY <3>1
    <3>2. CASE i # 0
      <4>1. Opt(l, i) \in R /\ Opt(r, i) \in R
        BY <1>4, <3>2
      <4>2. Grown(o, i) \in R
        BY <1>3, <4>1, Zenon
      <4> QED
        BY <3>2, <4>2
    <3> QED
      BY <3>1, <3>2
  <2> HIDE DEF Grown, R
  <2> QED
    BY <2>1
<1> HIDE DEF step, R
<1>7. PICK h : h \in [0 .. rounds -> R] /\ Recursion(h, rounds, <<>>, step)
  BY <1>5, <1>6, ByRecursion
<1>8. \A i \in 0 .. rounds : i # 0 => h[i - 1] \in R
  BY <1>2, <1>7
<1>9. ASSUME NEW i \in 0 .. rounds, i # 0 PROVE step[i][h[i - 1]] = Grown(h[i - 1], i)
  <2> HIDE DEF Grown
  <2> QED
    BY <1>8, <1>9 DEF step
<1>10. Body(h)
  <2>1. h = [i \in 0 .. rounds |-> IF i = 0 THEN <<>> ELSE step[i][h[i - 1]]]
    BY <1>7 DEF Recursion
  <2> QED
    BY <1>9, <2>1, Zenon
<1>11. PICK out : Body(out) /\ Merged(l, r, rounds) = out[rounds]
  <2>1. Merged(l, r, rounds) = (CHOOSE g : Body(g))[rounds]
    BY DEF Merged
  <2> QED
    BY <1>10, <2>1
<1>12. \A i \in 0 .. rounds : h[i] = IF i = 0 THEN <<>> ELSE Grown(h[i - 1], i)
  BY <1>10, Zenon
<1>13. \A i \in 0 .. rounds : out[i] = h[i]
  <2>1. \A i \in 0 .. rounds : out[i] = IF i = 0 THEN <<>> ELSE Grown(out[i - 1], i)
    BY <1>11, Zenon
  <2> HIDE DEF Grown, Body
  <2>2. out[0] = h[0]
    BY <1>1, <1>12, <2>1
  <2>3. \A i \in 1 .. rounds : out[i - 1] = h[i - 1] => out[i] = h[i]
    BY <1>1, <1>12, <2>1
  <2>4. Parallel(out, h, rounds)
    BY <2>2, <2>3 DEF Parallel
  <2> QED
    BY <2>4, SameRecursion
<1>14. h[0] = <<>> /\ \A i \in 1 .. rounds : h[i] = Grown(h[i - 1], i)
  <2> HIDE DEF Grown
  <2> QED
    BY <1>1, <1>12, Zenon
<1>15. MergedLoop(h, l, r, rounds)
  BY <1>14 DEF MergedLoop
<1>16. Merged(l, r, rounds) = h[rounds]
  BY <1>1, <1>11, <1>13, Zenon
<1> QED
  BY <1>7, <1>15, <1>16 DEF R

(* Interleaving by enough rounds keeps every character of both strands. *)
LEMMA CountMerged ==
  ASSUME NEW l \in Seq(Codes), NEW r \in Seq(Codes), NEW rounds \in Nat, NEW c
  PROVE  /\ Merged(l, r, rounds) \in Seq(Codes)
         /\ Count(Merged(l, r, rounds), c) = Count(UpTo(l, rounds), c) + Count(UpTo(r, rounds), c)
<1>1. 0 \in 0 .. rounds /\ rounds \in 0 .. rounds /\ \A j \in 1 .. rounds : j \in 0 .. rounds /\ j # 0
  BY SMT
<1>2. \A i \in 0 .. rounds : i # 0 => i \in Nat \ {0} /\ i - 1 \in 0 .. rounds /\ i \in 1 .. rounds
  BY SMT
<1>3. \A i \in 0 .. rounds : i # 0 => Opt(l, i) \in Seq(Codes) /\ Opt(r, i) \in Seq(Codes)
  BY <1>2, CountOpt
<1>4. PICK h \in [0 .. rounds -> Seq(Codes)] :
        MergedLoop(h, l, r, rounds) /\ Merged(l, r, rounds) = h[rounds]
  BY MergedSteps
<1>5. \A i \in 0 .. rounds : i # 0 => h[i - 1] \in Seq(Codes)
  BY <1>2, <1>4
<1>6. h[0] = <<>> /\ \A i \in 1 .. rounds : h[i] = h[i - 1] \o Opt(l, i) \o Opt(r, i)
  BY <1>4 DEF MergedLoop
<1> DEFINE f == [i \in 0 .. rounds |-> Count(h[i], c)]
           g == [i \in 0 .. rounds |-> Count(UpTo(l, i), c) + Count(UpTo(r, i), c)]
<1>7. \A s \in Seq(Codes) : \A i \in 0 .. rounds : Count(UpTo(s, i), c) \in Nat
  <2> SUFFICES ASSUME NEW s \in Seq(Codes), NEW i \in 0 .. rounds PROVE UpTo(s, i) \in Seq(Codes)
    BY PlacesFinite
  <2> DEFINE e == IF i <= Len(s) THEN i ELSE Len(s)
  <2>1. Len(s) \in Nat
    BY LenProperties
  <2>2. e \in 0 .. Len(s) /\ e \in e .. Len(s)
    BY <2>1, SMT
  <2> HIDE DEF e
  <2>3. SubSeq(s, 1, e) \in Seq(Codes)
    BY <2>2, CountSplit
  <2> QED
    BY <2>3 DEF UpTo, e
<1>8. \A i \in 0 .. rounds : Count(h[i], c) \in Nat
  BY <1>4, PlacesFinite
<1>9. f \in [0 .. rounds -> Int] /\ g \in [0 .. rounds -> Int]
  <2>1. ASSUME NEW i \in 0 .. rounds
        PROVE  Count(h[i], c) \in Int /\ Count(UpTo(l, i), c) + Count(UpTo(r, i), c) \in Int
    <3>1. Count(h[i], c) \in Nat /\ Count(UpTo(l, i), c) \in Nat /\ Count(UpTo(r, i), c) \in Nat
      BY <1>7, <1>8
    <3> QED
      BY <3>1, SMT
  <2> QED
    BY <2>1, Zenon
<1>10. f[0] = g[0]
  <2>1. ASSUME NEW s \in Seq(Codes) PROVE UpTo(s, 0) = <<>>
    <3>1. 0 <= Len(s) /\ 1 \in Int /\ 0 \in Int /\ 0 < 1
      BY LenProperties, SMT
    <3> QED
      BY <3>1, SubSeqEmpty DEF UpTo
  <2>3. f[0] = Count(<<>>, c) /\ g[0] = Count(<<>>, c) + Count(<<>>, c)
    BY <1>1, <1>6, <2>1
  <2> HIDE DEF f, g
  <2> QED
    BY <2>3, CountEmpty
<1>11. ASSUME NEW i \in 1 .. rounds PROVE f[i] - f[i - 1] = g[i] - g[i - 1]
  <2>1. i \in 0 .. rounds /\ i # 0 /\ i - 1 \in 0 .. rounds /\ i \in Nat \ {0}
    BY SMT
  <2>2. h[i] = (h[i - 1] \o Opt(l, i)) \o Opt(r, i)
    BY <1>6
  <2>3. h[i - 1] \in Seq(Codes) /\ Opt(l, i) \in Seq(Codes) /\ Opt(r, i) \in Seq(Codes)
    BY <1>3, <1>5, <2>1
  <2>4. Count(h[i], c) = (Count(h[i - 1], c) + Count(Opt(l, i), c)) + Count(Opt(r, i), c)
    <3> DEFINE a == h[i - 1]
               b == Opt(l, i)
               d == Opt(r, i)
    <3>1. a \in Seq(Codes) /\ b \in Seq(Codes) /\ d \in Seq(Codes)
      BY <2>3
    <3> HIDE DEF a, b, d
    <3>2. Count((a \o b) \o d, c) = (Count(a, c) + Count(b, c)) + Count(d, c)
      BY <3>1, CountThree
    <3>3. h[i] = (a \o b) \o d
      BY <2>2 DEF a, b, d
    <3> QED
      BY <3>2, <3>3 DEF a, b, d
  <2>5. /\ Count(UpTo(l, i), c) = Count(UpTo(l, i - 1), c) + Count(Opt(l, i), c)
        /\ Count(UpTo(r, i), c) = Count(UpTo(r, i - 1), c) + Count(Opt(r, i), c)
    BY <2>1, CountOpt
  <2>6. /\ Count(h[i - 1], c) \in Nat /\ Count(UpTo(l, i - 1), c) \in Nat
        /\ Count(UpTo(r, i - 1), c) \in Nat
        /\ Count(Opt(l, i), c) \in Nat /\ Count(Opt(r, i), c) \in Nat
    BY <1>7, <1>8, <2>1, <2>3, PlacesFinite
  <2>7. /\ f[i] = Count(h[i], c) /\ f[i - 1] = Count(h[i - 1], c)
        /\ g[i] = Count(UpTo(l, i), c) + Count(UpTo(r, i), c)
        /\ g[i - 1] = Count(UpTo(l, i - 1), c) + Count(UpTo(r, i - 1), c)
    BY <2>1
  <2> HIDE DEF f, g
  <2>8. \A a, b, d, x, y \in Nat : ((a + x) + y) - a = ((b + x) + (d + y)) - (b + d)
    BY SMT
  <2>9. /\ f[i] = (f[i - 1] + Count(Opt(l, i), c)) + Count(Opt(r, i), c)
        /\ g[i] = (Count(UpTo(l, i - 1), c) + Count(Opt(l, i), c))
                    + (Count(UpTo(r, i - 1), c) + Count(Opt(r, i), c))
    BY <2>4, <2>5, <2>7
  <2> QED
    BY <2>6, <2>7, <2>8, <2>9, SMTT(30)
<1> HIDE DEF f, g
<1>12. \A i \in 0 .. rounds : f[i] = g[i]
  BY <1>9, <1>10, <1>11, SameSteps
<1>13. Count(h[rounds], c) = Count(UpTo(l, rounds), c) + Count(UpTo(r, rounds), c)
  BY <1>1, <1>12 DEF f, g
<1>14. h[rounds] \in Seq(Codes) /\ Merged(l, r, rounds) = h[rounds]
  BY <1>1, <1>4
<1> QED
  BY <1>13, <1>14

(* The two strands share the text out. *)
LEMMA Halves ==
  ASSUME NEW m \in Nat
  PROVE  /\ (m - 1) \div 2 + 1 \in Nat /\ (m - 2) \div 2 + 1 \in Nat
         /\ \A i \in Int : i \in 1 .. (m - 1) \div 2 + 1 <=> 1 <= i /\ 2 * i - 1 <= m
         /\ \A i \in Int : i \in 1 .. (m - 2) \div 2 + 1 <=> 1 <= i /\ 2 * i <= m
         /\ \A z \in 1 .. m : (\E x \in 1 .. (m - 1) \div 2 + 1 : 2 * x - 1 = z)
                              \/ (\E y \in 1 .. (m - 2) \div 2 + 1 : 2 * y = z)
<1>1. (m - 1) \div 2 + 1 \in Nat /\ (m - 2) \div 2 + 1 \in Nat
  BY SMT
<1>2. \A i \in Int : i \in 1 .. (m - 1) \div 2 + 1 <=> 1 <= i /\ 2 * i - 1 <= m
  BY SMT
<1>3. \A i \in Int : i \in 1 .. (m - 2) \div 2 + 1 <=> 1 <= i /\ 2 * i <= m
  BY SMT
<1>4. ASSUME NEW z \in 1 .. m
      PROVE  (\E x \in 1 .. (m - 1) \div 2 + 1 : 2 * x - 1 = z)
             \/ (\E y \in 1 .. (m - 2) \div 2 + 1 : 2 * y = z)
  <2> DEFINE h == z \div 2
  <2>1. h \in Int /\ h + 1 \in Int /\ (z = 2 * h \/ z = 2 * (h + 1) - 1)
    BY SMT
  <2>2. z \in Int /\ 1 <= z /\ z <= m
    BY SMT
  <2> HIDE DEF h
  <2>3. CASE z = 2 * h
    <3>1. 1 <= h /\ 2 * h <= m
      BY <2>1, <2>2, <2>3, SMT
    <3> QED
      BY <1>3, <2>1, <2>3, <3>1
  <2>4. CASE z = 2 * (h + 1) - 1
    <3>1. 1 <= h + 1 /\ 2 * (h + 1) - 1 <= m
      BY <2>1, <2>2, <2>4, SMT
    <3> QED
      BY <1>2, <2>1, <2>4, <3>1
  <2> QED
    BY <2>1, <2>3, <2>4
<1> QED
  BY <1>1, <1>2, <1>3, <1>4

LEMMA CountStrands ==
  ASSUME NEW s \in Seq(Codes), NEW c
  PROVE  /\ Strand(s, 1) \in Seq(Codes) /\ Strand(s, 2) \in Seq(Codes)
         /\ Count(s, c) = Count(Strand(s, 1), c) + Count(Strand(s, 2), c)
<1> DEFINE m == Len(s)
           p == (m - 1) \div 2 + 1
           q == (m - 2) \div 2 + 1
           A == Places(Strand(s, 1), c)
           B == Places(Strand(s, 2), c)
           C == Places(s, c)
           f == [x \in A |-> 2 * x - 1]
           g == [y \in B |-> 2 * y]
<1>1. m \in Nat /\ \A i \in 1 .. m : s[i] \in Codes
  BY LenProperties, ElementOfSeq
<1>2. /\ p \in Nat /\ q \in Nat
      /\ \A i \in Int : i \in 1 .. p <=> 1 <= i /\ 2 * i - 1 <= m
      /\ \A i \in Int : i \in 1 .. q <=> 1 <= i /\ 2 * i <= m
      /\ \A z \in 1 .. m : (\E x \in 1 .. p : 2 * x - 1 = z) \/ (\E y \in 1 .. q : 2 * y = z)
  BY <1>1, Halves
<1>3. /\ Strand(s, 1) = [i \in 1 .. p |-> s[2 * i - 2 + 1]]
      /\ Strand(s, 2) = [i \in 1 .. q |-> s[2 * i - 2 + 2]]
  BY DEF Strand
<1> HIDE DEF m, p, q
<1>4. /\ \A i \in 1 .. p : i \in Int /\ 2 * i - 2 + 1 = 2 * i - 1 /\ 2 * i - 1 \in 1 .. m
      /\ \A i \in 1 .. q : i \in Int /\ 2 * i - 2 + 2 = 2 * i /\ 2 * i \in 1 .. m
  BY <1>1, <1>2, SMT
<1>5. /\ \A i \in 1 .. p : Strand(s, 1)[i] = s[2 * i - 1]
      /\ \A i \in 1 .. q : Strand(s, 2)[i] = s[2 * i]
  BY <1>3, <1>4
<1>6. Strand(s, 1) \in [1 .. p -> Codes] /\ Strand(s, 2) \in [1 .. q -> Codes]
  BY <1>1, <1>3, <1>4
<1>7. /\ Strand(s, 1) \in Seq(Codes) /\ Strand(s, 2) \in Seq(Codes)
      /\ Len(Strand(s, 1)) = p /\ Len(Strand(s, 2)) = q
  BY <1>2, <1>6, IsASeq, LenProperties
<1>8. /\ \A x : x \in A <=> x \in 1 .. p /\ s[2 * x - 1] = c
      /\ \A y : y \in B <=> y \in 1 .. q /\ s[2 * y] = c
      /\ \A z : z \in C <=> z \in 1 .. m /\ s[z] = c
  BY <1>5, <1>7 DEF Places, m
<1>9. IsFiniteSet(A) /\ IsFiniteSet(B)
  BY <1>7, PlacesFinite
<1> HIDE DEF A, B, C
<1>10. f \in [A -> C] /\ g \in [B -> C]
  BY <1>4, <1>8
<1>11. \A z \in C : (\E x \in A : f[x] = z) \/ (\E y \in B : g[y] = z)
  <2> SUFFICES ASSUME NEW z \in C PROVE (\E x \in A : 2 * x - 1 = z) \/ (\E y \in B : 2 * y = z)
    OBVIOUS
  <2> QED
    BY <1>2, <1>8
<1>12. /\ \A x, y \in A : 2 * x - 1 = 2 * y - 1 => x = y
       /\ \A x, y \in B : 2 * x = 2 * y => x = y
       /\ \A x \in A, y \in B : 2 * x - 1 # 2 * y
  BY <1>4, <1>8, SMT
<1>13. /\ \A x, y \in A : f[x] = f[y] => x = y
       /\ \A x, y \in B : g[x] = g[y] => x = y
       /\ \A x \in A, y \in B : f[x] # g[y]
  BY <1>12
<1> HIDE DEF f, g
<1>14. Cardinality(C) = Cardinality(A) + Cardinality(B)
  BY <1>9, <1>10, <1>11, <1>13, TwoParts
<1> QED
  BY <1>7, <1>14, CountIsPlaces DEF A, B, C

-----------------------------------------------------------------------------
(* Shifting around the code space.                                         *)
LEMMA Remainder ==
  ASSUME NEW m \in Nat \ {0}, NEW q \in Int, NEW p \in Int,
         NEW r \in 0 .. m - 1, NEW s \in 0 .. m - 1, m * q + r = m * p + s
  PROVE  r = s
<1>1. m * (q - p) = s - r
  BY SMT
<1>2. CASE q = p
  BY <1>1, <1>2, SMT
<1>3. CASE q > p
  <2>1. m * (q - p) >= m
    BY <1>3, SMT
  <2> QED
    BY <1>1, <2>1, SMT
<1>4. CASE q < p
  <2>1. m * (q - p) <= -m
    BY <1>4, SMT
  <2> QED
    BY <1>1, <2>1, SMT
<1> QED
  BY <1>2, <1>3, <1>4, SMT

LEMMA Division ==
  ASSUME NEW m \in Nat \ {0}, NEW x \in Int
  PROVE  x = m * (x \div m) + (x % m) /\ x % m \in 0 .. m - 1 /\ x \div m \in Int
  BY SMT

LEMMA ModOf ==
  ASSUME NEW m \in Nat \ {0}, NEW q \in Int, NEW s \in 0 .. m - 1
  PROVE  (m * q + s) % m = s
<1> DEFINE z == m * q + s
<1>1. z \in Int
  BY SMT
<1>2. z = m * (z \div m) + (z % m) /\ z \div m \in Int /\ z % m \in 0 .. m - 1
  BY <1>1, Division
<1>3. z = m * q + s
  OBVIOUS
<1> HIDE DEF z
<1>4. z % m = s
  BY <1>2, <1>3, Remainder
<1> QED
  BY <1>4 DEF z

LEMMA ShiftBack ==
  ASSUME NEW m \in Nat \ {0}, NEW x \in 0 .. m - 1, NEW c \in 0 .. m - 1, NEW d \in Int,
         (x + d) % m = c
  PROVE  x = (c - d) % m
<1> DEFINE q == (x + d) \div m
<1>1. q \in Int /\ x + d = m * q + c
  BY Division
<1> HIDE DEF q
<1>2. -q \in Int /\ m * (-q) = -(m * q) /\ m * q \in Int
  BY <1>1, SMT
<1>3. c - d = m * (-q) + x
  BY <1>1, <1>2, SMT
<1>4. (m * (-q) + x) % m = x
  BY <1>2, ModOf
<1> QED
  BY <1>3, <1>4

LEMMA ShiftForth ==
  ASSUME NEW m \in Nat \ {0}, NEW c \in 0 .. m - 1, NEW d \in Int
  PROVE  (((c - d) % m) + d) % m = c
<1> DEFINE x == (c - d) % m
<1>1. x \in 0 .. m - 1 /\ -d \in Int /\ (c + (-d)) % m = x
  BY SMT
<1> HIDE DEF x
<1>2. c = (x - (-d)) % m
  BY <1>1, ShiftBack
<1>3. x - (-d) = x + d
  BY <1>1, SMT
<1> QED
  BY <1>2, <1>3 DEF x

LEMMA ShiftedIsCode ==
  ASSUME variant \in Variants, NEW c \in Codes, NEW d \in Int PROVE Shifted(c, d) \in Codes
<1>1. CodeSize \in Nat \ {0}
  BY CodeAssumption
<1>2. variant \in {"python", "lossless", "lossy"}
  BY VariantAssumption
<1>3. CASE variant = "python"
  <2>1. (c + d) % CodeSize \in 0 .. CodeSize - 1
    BY <1>1, SMT DEF Codes
  <2> QED
    BY <1>3, <2>1 DEF Shifted, Codes
<1>4. CASE variant = "lossless"
  BY <1>4 DEF Shifted
<1>5. CASE variant = "lossy"
  BY <1>5 DEF Shifted
<1> QED
  BY <1>2, <1>3, <1>4, <1>5

LEMMA EachType ==
  ASSUME variant \in Variants, NEW s \in Seq(Codes), NEW d \in Int
  PROVE  /\ Each(s, d) \in Seq(Codes) /\ Len(Each(s, d)) = Len(s)
         /\ \A i \in 1 .. Len(s) : Each(s, d)[i] = Shifted(s[i], d)
<1>1. Len(s) \in Nat /\ \A i \in 1 .. Len(s) : s[i] \in Codes
  BY LenProperties, ElementOfSeq
<1>2. \A i \in 1 .. Len(s) : Shifted(s[i], d) \in Codes
  BY <1>1, ShiftedIsCode
<1> HIDE DEF Codes
<1>3. Each(s, d) \in [1 .. Len(s) -> Codes] /\ \A i \in 1 .. Len(s) : Each(s, d)[i] = Shifted(s[i], d)
  BY <1>2 DEF Each
<1> QED
  BY <1>1, <1>3, IsASeq, LenProperties

(* Python's shift maps the occurrences of a character to those of another. *)
LEMMA CountShifted ==
  ASSUME variant \in Variants, variant = "python",
         NEW s \in Seq(Codes), NEW d \in Int, NEW c \in Codes
  PROVE  (c - d) % CodeSize \in Codes /\ Count(Each(s, d), c) = Count(s, (c - d) % CodeSize)
<1>1. CodeSize \in Nat \ {0}
  BY CodeAssumption
<1>2. \A i \in 1 .. Len(s) : s[i] \in Codes
  BY ElementOfSeq
<1>3. \A i \in 1 .. Len(s) : Each(s, d)[i] = c <=> s[i] = (c - d) % CodeSize
  <2> SUFFICES ASSUME NEW i \in 1 .. Len(s)
               PROVE  Each(s, d)[i] = c <=> s[i] = (c - d) % CodeSize
    OBVIOUS
  <2>1. Each(s, d)[i] = (s[i] + d) % CodeSize
    BY EachType DEF Shifted
  <2>2. s[i] \in 0 .. CodeSize - 1 /\ c \in 0 .. CodeSize - 1
    BY <1>2 DEF Codes
  <2>3. ASSUME (s[i] + d) % CodeSize = c PROVE s[i] = (c - d) % CodeSize
    BY <1>1, <2>2, <2>3, ShiftBack
  <2>4. ASSUME s[i] = (c - d) % CodeSize PROVE (s[i] + d) % CodeSize = c
    <3>1. (((c - d) % CodeSize) + d) % CodeSize = c
      BY <1>1, <2>2, ShiftForth
    <3> QED
      BY <2>4, <3>1, Zenon
  <2> QED
    BY <2>1, <2>3, <2>4, Zenon
<1>4. Places(Each(s, d), c) = Places(s, (c - d) % CodeSize)
  BY <1>3, EachType DEF Places
<1>5. (c - d) % CodeSize \in Codes
  BY <1>1, SMT DEF Codes
<1> QED
  BY <1>4, <1>5, CountIsPlaces

LEMMA EachConcat ==
  ASSUME variant \in Variants, NEW s \in Seq(Codes), NEW t \in Seq(Codes), NEW d \in Int
  PROVE  Each(s \o t, d) = Each(s, d) \o Each(t, d)
<1>1. /\ s \o t \in Seq(Codes) /\ Len(s) \in Nat /\ Len(t) \in Nat
      /\ Len(s \o t) = Len(s) + Len(t)
      /\ \A i \in 1 .. Len(s) + Len(t) : (s \o t)[i] = IF i <= Len(s) THEN s[i] ELSE t[i - Len(s)]
  BY ConcatProperties, LenProperties
<1>2. /\ Each(s, d) \in Seq(Codes) /\ Len(Each(s, d)) = Len(s)
      /\ \A i \in 1 .. Len(s) : Each(s, d)[i] = Shifted(s[i], d)
  BY EachType
<1>3. /\ Each(t, d) \in Seq(Codes) /\ Len(Each(t, d)) = Len(t)
      /\ \A i \in 1 .. Len(t) : Each(t, d)[i] = Shifted(t[i], d)
  BY EachType
<1>4. /\ Each(s \o t, d) \in Seq(Codes) /\ Len(Each(s \o t, d)) = Len(s) + Len(t)
      /\ \A i \in 1 .. Len(s) + Len(t) : Each(s \o t, d)[i] = Shifted((s \o t)[i], d)
  BY <1>1, EachType
<1>5. /\ Each(s, d) \o Each(t, d) \in Seq(Codes)
      /\ Len(Each(s, d) \o Each(t, d)) = Len(s) + Len(t)
      /\ \A i \in 1 .. Len(s) + Len(t) :
           (Each(s, d) \o Each(t, d))[i] = IF i <= Len(s) THEN Each(s, d)[i] ELSE Each(t, d)[i - Len(s)]
  <2> DEFINE x == Each(s, d)
             y == Each(t, d)
  <2>1. x \in Seq(Codes) /\ y \in Seq(Codes) /\ Len(x) = Len(s) /\ Len(y) = Len(t)
    BY <1>2, <1>3
  <2> HIDE DEF x, y
  <2>2. /\ x \o y \in Seq(Codes) /\ Len(x \o y) = Len(x) + Len(y)
        /\ \A i \in 1 .. Len(x) + Len(y) : (x \o y)[i] = IF i <= Len(x) THEN x[i] ELSE y[i - Len(x)]
    BY <2>1, ConcatProperties
  <2> QED
    BY <2>1, <2>2 DEF x, y
<1>6. ASSUME NEW i \in 1 .. Len(s) + Len(t)
      PROVE  Each(s \o t, d)[i] = (Each(s, d) \o Each(t, d))[i]
  <2>1. CASE i <= Len(s)
    <3>1. i \in 1 .. Len(s)
      BY <1>1, <2>1, SMT
    <3> QED
      BY <1>1, <1>2, <1>4, <1>5, <2>1, <3>1
  <2>2. CASE ~(i <= Len(s))
    <3>1. i - Len(s) \in 1 .. Len(t)
      BY <1>1, <2>2, SMT
    <3> QED
      BY <1>1, <1>3, <1>4, <1>5, <2>2, <3>1
  <2> QED
    BY <2>1, <2>2
<1> QED
  BY <1>4, <1>5, <1>6, SeqEqual

(* Shifting keeps equal counts equal. *)
LEMMA ShiftMoves ==
  ASSUME variant \in Variants, NEW s \in Seq(Codes), NEW t \in Seq(Codes), NEW d \in Int, NEW c,
         \A x \in Codes : Count(s, x) = Count(t, x)
  PROVE  Count(Each(s, d), c) = Count(Each(t, d), c)
<1> DEFINE b(x) == CHOOSE f : f \in Bijection(Places(s, x), Places(t, x))
           A == Places(Each(s, d), c)
           B == Places(Each(t, d), c)
           f == [i \in A |-> b(s[i])[i]]
<1>1. /\ \A i : i \in A <=> i \in 1 .. Len(s) /\ Shifted(s[i], d) = c
      /\ \A i : i \in B <=> i \in 1 .. Len(t) /\ Shifted(t[i], d) = c
  BY EachType DEF Places
<1>2. /\ \A i \in 1 .. Len(s) : s[i] \in Codes
      /\ \A i \in 1 .. Len(t) : t[i] \in Codes
  BY ElementOfSeq
<1>3. ASSUME NEW x \in Codes PROVE b(x) \in Bijection(Places(s, x), Places(t, x))
  <2>1. IsFiniteSet(Places(s, x)) /\ IsFiniteSet(Places(t, x))
    BY PlacesFinite
  <2>2. Cardinality(Places(s, x)) = Cardinality(Places(t, x))
    BY CountIsPlaces
  <2>3. ExistsBijection(Places(s, x), Places(t, x))
    BY <2>1, <2>2, FS_SameCardinalityBij
  <2>4. \E g : g \in Bijection(Places(s, x), Places(t, x))
    BY <2>3 DEF ExistsBijection
  <2> QED
    BY <2>4
<1> HIDE DEF b, A, B
<1>4. ASSUME NEW x \in Codes
      PROVE  /\ \A i \in 1 .. Len(s) : s[i] = x => b(x)[i] \in 1 .. Len(t) /\ t[b(x)[i]] = x
             /\ \A i, j \in 1 .. Len(s) : s[i] = x /\ s[j] = x /\ b(x)[i] = b(x)[j] => i = j
             /\ \A z \in 1 .. Len(t) : t[z] = x => \E i \in 1 .. Len(s) : s[i] = x /\ b(x)[i] = z
  <2> DEFINE g == b(x)
             C == Places(s, x)
             D == Places(t, x)
  <2>1. /\ g \in [C -> D] /\ (\A i, j \in C : g[i] = g[j] => i = j)
        /\ \A z \in D : \E i \in C : g[i] = z
    <3>1. g \in Bijection(C, D)
      BY <1>3
    <3> HIDE DEF g, C, D
    <3> QED
      BY <3>1 DEF Bijection, Injection, IsInjective, Surjection
  <2>2. /\ \A i : i \in C <=> i \in 1 .. Len(s) /\ s[i] = x
        /\ \A i : i \in D <=> i \in 1 .. Len(t) /\ t[i] = x
    BY DEF Places
  <2> HIDE DEF g, C, D
  <2>3. /\ \A i \in 1 .. Len(s) : s[i] = x => g[i] \in 1 .. Len(t) /\ t[g[i]] = x
        /\ \A i, j \in 1 .. Len(s) : s[i] = x /\ s[j] = x /\ g[i] = g[j] => i = j
        /\ \A z \in 1 .. Len(t) : t[z] = x => \E i \in 1 .. Len(s) : s[i] = x /\ g[i] = z
    BY <2>1, <2>2
  <2> QED
    BY <2>3 DEF g
<1>5. f \in Bijection(A, B)
  <2>1. ASSUME NEW i \in A PROVE f[i] \in B /\ t[f[i]] = s[i]
    BY <1>1, <1>2, <1>4
  <2>2. ASSUME NEW i \in A, NEW j \in A, f[i] = f[j] PROVE i = j
    <3>1. s[i] = s[j]
      BY <2>1, <2>2
    <3>2. i \in 1 .. Len(s) /\ j \in 1 .. Len(s) /\ s[i] \in Codes /\ f[i] = b(s[i])[i] /\ f[j] = b(s[j])[j]
      BY <1>1, <1>2
    <3>3. b(s[i])[i] = b(s[i])[j]
      BY <2>2, <3>1, <3>2, Zenon
    <3> HIDE DEF f
    <3> QED
      BY <1>4, <3>1, <3>2, <3>3
  <2>3. ASSUME NEW z \in B PROVE \E i \in A : f[i] = z
    <3>1. z \in 1 .. Len(t) /\ t[z] \in Codes /\ Shifted(t[z], d) = c
      BY <1>1, <1>2
    <3>2. PICK i \in 1 .. Len(s) : s[i] = t[z] /\ b(t[z])[i] = z
      BY <1>4, <3>1
    <3>3. i \in A
      BY <1>1, <3>1, <3>2
    <3> QED
      BY <3>2, <3>3
  <2>4. f \in [A -> B]
    BY <2>1
  <2> HIDE DEF f
  <2> QED
    BY <2>2, <2>3, <2>4 DEF Bijection, Injection, IsInjective, Surjection
<1>6. IsFiniteSet(A)
  BY EachType, PlacesFinite DEF A
<1>7. Cardinality(A) = Cardinality(B)
  BY <1>5, <1>6, FS_Bijection DEF ExistsBijection
<1> QED
  BY <1>7, CountIsPlaces DEF A, B

-----------------------------------------------------------------------------
(* The invariant.  Outside the braid's loop its equation is one about the  *)
(* stream alone; in the reverse's loop the strands hold what of the stream *)
(* was dealt out.                                                          *)
Kept == Codes \ (IF variant = "lossy" THEN Forbidden ELSE {})

Typed ==
  /\ variant \in Variants /\ text \in Texts /\ kappa \in Keys
  /\ phase \in {"braid", "unbraid", "done"}
  /\ left \in Seq(Codes) /\ right \in Seq(Codes) /\ stream \in Seq(Codes)
  /\ n \in Nat /\ cursor \in 0 .. Len(stream)

Braided ==
  IF phase = "braid"
  THEN cursor = 0 /\ \A c \in Kept :
         Count(left, c) + Count(right, c) + Count(stream, c) = Count(Each(text, kappa), c)
  ELSE \A c \in Kept : Count(stream, c) = Count(Each(text, kappa), c)

DealtOut ==
  phase = "unbraid" =>
    \A c \in Codes : Count(left, c) + Count(right, c) = Count(SubSeq(stream, 1, cursor), c)

BraidInv == Typed /\ Braided /\ DealtOut /\ ReverseKeepsAll

-----------------------------------------------------------------------------
(* The parts of a step.                                                    *)
LEMMA CallType ==
  ASSUME Typed
  PROVE  /\ text \in Seq(Codes) /\ kappa \in Int /\ -kappa \in Int
         /\ Each(text, kappa) \in Seq(Codes)
<1>1. text \in Seq(Codes \ Surrogates) /\ kappa \in Nat
  BY CodeAssumption DEF Typed
<1>2. text \in Seq(Codes)
  BY <1>1, SeqMonotonic
<1>3. kappa \in Int /\ -kappa \in Int
  BY <1>1, SMT
<1> QED
  BY <1>2, <1>3, EachType DEF Typed

LEMMA HalvesCover ==
  ASSUME Typed
  PROVE  /\ HalfLeft \in Nat /\ HalfRight \in Nat /\ HalfLeft <= HalfRight
         /\ Len(text) \in Nat /\ Len(text) <= HalfLeft + HalfRight
<1> DEFINE m == Len(text)
           o == OriginalLen
<1>1. m \in Nat /\ o \in Nat /\ m <= o
  <2>1. m \in Nat
    BY CallType, LenProperties
  <2>2. ByteLen(text) \in Nat /\ ByteLen(text) >= m
    BY BytesAssumption DEF Typed
  <2> QED
    BY <2>1, <2>2 DEF OriginalLen
<1> HIDE DEF m, o
<1>2. o \div 2 \in Nat /\ o - (o \div 2) \in Nat /\ o \div 2 <= o - (o \div 2)
      /\ m <= (o \div 2) + (o - (o \div 2))
  BY <1>1, SMT
<1>3. HalfLeft = o \div 2 /\ HalfRight = o - (o \div 2)
  BY DEF HalfLeft, HalfRight, o
<1> QED
  BY <1>1, <1>2, <1>3, SMT DEF m

LEMMA PortionFits ==
  ASSUME NEW i \in Nat, NEW len \in Nat PROVE Portion(i, len) \in 0 .. len
<1>1. Fib(i) \in Nat
  BY FibIsNatural
<1> QED
  BY <1>1, SMT DEF Portion

LEMMA TakenFits ==
  ASSUME NEW i \in Nat, NEW s \in Seq(Codes) PROVE Taken(s, i) \in 0 .. Len(s)
<1>1. Len(s) \in Nat
  BY LenProperties
<1>2. 0 \in 0 .. Len(s)
  BY <1>1, SMT
<1>3. Portion(i, Len(s)) \in 0 .. Len(s)
  BY <1>1, PortionFits
<1> QED
  BY <1>2, <1>3 DEF Taken

LEMMA CountTaken ==
  ASSUME NEW s \in Seq(Codes), NEW t \in 0 .. Len(s), NEW c
  PROVE  /\ Shortened(s, t) \in Seq(Codes) /\ Popped(s, t) \in Seq(Codes)
         /\ Count(s, c) = Count(Shortened(s, t), c) + Count(Popped(s, t), c)
<1> DEFINE a == Len(s) - t
           p == SubSeq(s, a + 1, Len(s))
<1>1. Len(s) \in Nat
  BY LenProperties
<1>2. a \in 0 .. Len(s) /\ Len(s) \in a .. Len(s)
  BY <1>1, SMT
<1> HIDE DEF a
<1>3. /\ SubSeq(s, 1, a) \in Seq(Codes) /\ p \in Seq(Codes)
      /\ Count(s, c) = Count(SubSeq(s, 1, a), c) + Count(p, c)
  BY <1>2, CountSplit, CountAll
<1>4. Shortened(s, t) = SubSeq(s, 1, a) /\ Popped(s, t) = Reverse(p)
  BY DEF Shortened, Popped, a
<1> HIDE DEF p
<1>5. Reverse(p) \in Seq(Codes) /\ Count(Reverse(p), c) = Count(p, c)
  BY <1>3, CountReverse
<1> QED
  BY <1>3, <1>4, <1>5, Zenon

LEMMA CountFiltered ==
  ASSUME NEW s \in Seq(Codes), NEW c
  PROVE  Filtered(s) \in Seq(Codes) /\ (c \in Kept => Count(Filtered(s), c) = Count(s, c))
BY CountAllowed DEF Filtered, Kept

(* The slice after the a-th up to the b-th member. *)
LEMMA SliceType ==
  ASSUME NEW s \in Seq(Codes), NEW a \in 0 .. Len(s), NEW b \in a .. Len(s)
  PROVE  /\ SubSeq(s, a + 1, b) \in Seq(Codes) /\ Len(SubSeq(s, a + 1, b)) = b - a
         /\ \A i \in 1 .. b - a : SubSeq(s, a + 1, b)[i] = s[a + i] /\ a + i \in 1 .. Len(s)
<1> DEFINE m == Len(s)
<1>1. m \in Nat /\ \A i \in 1 .. m : s[i] \in Codes
  BY LenProperties, ElementOfSeq
<1> HIDE DEF m
<1>2. a \in 0 .. m /\ b \in a .. m
  BY DEF m
<1>3. /\ a + 1 \in Int /\ b \in Int /\ \A i \in a + 1 .. b : i \in 1 .. m
      /\ (IF a + 1 <= b THEN b - (a + 1) + 1 ELSE 0) = b - a /\ b - (a + 1) + 1 = b - a
      /\ \A i \in 1 .. b - a : a + i \in 1 .. m /\ (a + 1) + i - 1 = a + i
  BY <1>1, <1>2, SMT
<1>4. \A i \in a + 1 .. b : s[i] \in Codes
  BY <1>1, <1>3
<1>5. /\ SubSeq(s, a + 1, b) \in Seq(Codes)
      /\ Len(SubSeq(s, a + 1, b)) = IF a + 1 <= b THEN b - (a + 1) + 1 ELSE 0
      /\ \A i \in 1 .. b - (a + 1) + 1 : SubSeq(s, a + 1, b)[i] = s[(a + 1) + i - 1]
  BY <1>3, <1>4, SubSeqProperties
<1>6. \A i \in 1 .. b - a : SubSeq(s, a + 1, b)[i] = s[a + i]
  BY <1>3, <1>5
<1> QED
  BY <1>3, <1>5, <1>6 DEF m

(* What is popped comes first in the reversed strand, what stays behind    *)
(* comes after it.                                                         *)
LEMMA PoppedFirst ==
  ASSUME NEW s \in Seq(Codes), NEW e \in 0 .. Len(s)
  PROVE  /\ Popped(s, e) = SubSeq(Reverse(s), 0 + 1, e)
         /\ Reverse(Shortened(s, e)) = SubSeq(Reverse(s), e + 1, Len(s))
<1> DEFINE m == Len(s)
           a == m - e
           f == SubSeq(s, a + 1, m)
           g == SubSeq(s, 0 + 1, a)
           p == SubSeq(Reverse(s), 0 + 1, e)
           q == SubSeq(Reverse(s), e + 1, m)
<1>1. m \in Nat
  BY LenProperties
<1>2. a \in 0 .. m /\ m \in a .. m /\ 0 \in 0 .. m /\ a \in 0 .. a /\ e \in 0 .. m /\ e \in 0 .. e
      /\ m \in e .. m /\ m - a = e /\ m - e = a /\ a - 0 = a /\ e - 0 = e /\ 0 + 1 = 1
  BY <1>1, SMT
<1>3. /\ Reverse(s) \in Seq(Codes) /\ Len(Reverse(s)) = m
      /\ \A i \in 1 .. m : Reverse(s)[i] = s[(m - i) + 1]
  BY CountReverse DEF Reverse
<1>4. Popped(s, e) = Reverse(f) /\ Shortened(s, e) = g
  BY <1>2 DEF Popped, Shortened
<1> HIDE DEF m, a
<1>5. f \in Seq(Codes) /\ Len(f) = e /\ \A i \in 1 .. e : f[i] = s[a + i]
  BY <1>2, SliceType DEF m
<1>6. g \in Seq(Codes) /\ Len(g) = a /\ \A i \in 1 .. a : g[i] = s[0 + i]
  BY <1>1, <1>2, SliceType, SMT DEF m
<1>7. p \in Seq(Codes) /\ Len(p) = e /\ \A i \in 1 .. e : p[i] = Reverse(s)[0 + i]
  BY <1>1, <1>2, <1>3, SliceType, SMT
<1>8. q \in Seq(Codes) /\ Len(q) = a /\ \A i \in 1 .. a : q[i] = Reverse(s)[e + i]
  BY <1>2, <1>3, SliceType
<1> HIDE DEF f, g, p, q
<1>9. /\ Reverse(f) \in Seq(Codes) /\ Len(Reverse(f)) = e
      /\ Reverse(g) \in Seq(Codes) /\ Len(Reverse(g)) = a
      /\ \A i \in 1 .. e : Reverse(f)[i] = f[(e - i) + 1]
      /\ \A i \in 1 .. a : Reverse(g)[i] = g[(a - i) + 1]
  BY <1>5, <1>6, CountReverse DEF Reverse
<1>10. p = Reverse(f)
  <2>1. ASSUME NEW i \in 1 .. e PROVE p[i] = Reverse(f)[i]
    <3>1. /\ (e - i) + 1 \in 1 .. e /\ 0 + i = i /\ i \in 1 .. m
          /\ a + ((e - i) + 1) = (m - i) + 1
      BY <1>1, <1>2, SMT
    <3>2. p[i] = s[(m - i) + 1] /\ Reverse(f)[i] = s[a + ((e - i) + 1)]
      BY <1>3, <1>5, <1>7, <1>9, <3>1
    <3> QED
      BY <3>1, <3>2
  <2> QED
    BY <1>7, <1>9, <2>1, SeqEqual
<1>11. q = Reverse(g)
  <2>1. ASSUME NEW i \in 1 .. a PROVE q[i] = Reverse(g)[i]
    <3>1. /\ (a - i) + 1 \in 1 .. a /\ e + i \in 1 .. m
          /\ (m - (e + i)) + 1 = 0 + ((a - i) + 1)
      BY <1>1, <1>2, SMT
    <3>2. q[i] = s[(m - (e + i)) + 1] /\ Reverse(g)[i] = s[0 + ((a - i) + 1)]
      BY <1>3, <1>6, <1>8, <1>9, <3>1
    <3> QED
      BY <3>1, <3>2
  <2> QED
    BY <1>8, <1>9, <2>1, SeqEqual
<1> QED
  BY <1>4, <1>10, <1>11 DEF p, q, m

(* What a round takes off a strand, it appends to the stream. *)
LEMMA OneTaken ==
  ASSUME NEW s \in Seq(Codes), NEW i \in Nat, NEW c
  PROVE  LET t == Taken(s, i) IN
         /\ Shortened(s, t) \in Seq(Codes) /\ Filtered(Popped(s, t)) \in Seq(Codes)
         /\ c \in Kept => Count(s, c) = Count(Shortened(s, t), c) + Count(Filtered(Popped(s, t)), c)
<1> DEFINE t == Taken(s, i)
<1>1. t \in 0 .. Len(s)
  BY TakenFits
<1> HIDE DEF t
<1>2. /\ Shortened(s, t) \in Seq(Codes) /\ Popped(s, t) \in Seq(Codes)
      /\ Count(s, c) = Count(Shortened(s, t), c) + Count(Popped(s, t), c)
  BY <1>1, CountTaken
<1>3. /\ Filtered(Popped(s, t)) \in Seq(Codes)
      /\ c \in Kept => Count(Filtered(Popped(s, t)), c) = Count(Popped(s, t), c)
  BY <1>2, CountFiltered
<1>4. /\ Shortened(s, t) \in Seq(Codes) /\ Filtered(Popped(s, t)) \in Seq(Codes)
      /\ c \in Kept => Count(s, c) = Count(Shortened(s, t), c) + Count(Filtered(Popped(s, t)), c)
  BY <1>2, <1>3, Zenon
<1> QED
  BY <1>4 DEF t

(* A portion of the stream is dealt out. *)
LEMMA OneDealt ==
  ASSUME stream \in Seq(Codes), NEW from \in 0 .. Len(stream), NEW t \in Nat
  PROVE  LET d == Dealt(from, t) IN
         /\ d \in Seq(Codes) /\ from + Len(d) \in 0 .. Len(stream)
         /\ \A c : Count(SubSeq(stream, 1, from + Len(d)), c)
                     = Count(SubSeq(stream, 1, from), c) + Count(d, c)
<1> DEFINE b == IF from + t <= Len(stream) THEN from + t ELSE Len(stream)
<1>1. Len(stream) \in Nat
  BY LenProperties
<1>2. b \in from .. Len(stream)
  BY <1>1, SMT
<1> HIDE DEF b
<1> DEFINE d == SubSeq(stream, from + 1, b)
<1>3. d \in Seq(Codes) /\ Len(d) = b - from
  BY <1>2, CountSplit
<1>4. from + Len(d) = b /\ b \in 0 .. Len(stream)
  BY <1>1, <1>2, <1>3, SMT
<1>5. \A c : Count(SubSeq(stream, 1, b), c) = Count(SubSeq(stream, 1, from), c) + Count(d, c)
  BY <1>2, CountSplit
<1>6. Dealt(from, t) = d
  BY DEF Dealt, b
<1> HIDE DEF d
<1> QED
  BY <1>3, <1>4, <1>5, <1>6

(* What of a reversed strand lies up to the m-th, and what beyond it.      *)
LEMMA CountRest ==
  ASSUME NEW s \in Seq(Codes), NEW m \in Nat, NEW c
  PROVE  LET b == SubSeq(s, 1, Len(s) - m) IN
         b \in Seq(Codes) /\ Count(UpTo(Reverse(s), m), c) + Count(b, c) = Count(s, c)
<1> DEFINE b == SubSeq(s, 1, Len(s) - m)
           u == UpTo(Reverse(s), m)
<1>1. /\ Len(s) \in Nat /\ Reverse(s) \in Seq(Codes) /\ Len(Reverse(s)) = Len(s)
      /\ Count(Reverse(s), c) = Count(s, c)
  BY LenProperties, CountReverse
<1>2. CASE m <= Len(s)
  <2>1. m \in 0 .. Len(s)
    BY <1>1, <1>2, SMT
  <2>2. u = SubSeq(Reverse(s), 0 + 1, m) /\ b = Shortened(s, m)
    BY <1>1, <1>2 DEF UpTo, Shortened
  <2>3. u = Popped(s, m)
    BY <2>1, <2>2, PoppedFirst, Zenon
  <2>4. /\ Shortened(s, m) \in Seq(Codes) /\ Popped(s, m) \in Seq(Codes)
        /\ Count(s, c) = Count(Shortened(s, m), c) + Count(Popped(s, m), c)
    BY <2>1, CountTaken
  <2> HIDE DEF b, u
  <2>5. b \in Seq(Codes) /\ u \in Seq(Codes) /\ Count(s, c) = Count(b, c) + Count(u, c)
    BY <2>2, <2>3, <2>4, Zenon
  <2>6. Count(b, c) \in Nat /\ Count(u, c) \in Nat
    BY <2>5, PlacesFinite
  <2>7. Count(u, c) + Count(b, c) = Count(s, c)
    BY <2>5, <2>6
  <2> QED
    BY <2>5, <2>7 DEF b, u
<1>3. CASE ~(m <= Len(s))
  <2>1. Len(s) - m < 1 /\ 1 \in Int /\ Len(s) - m \in Int
    BY <1>1, <1>3, SMT
  <2>2. b = <<>>
    BY <2>1, SubSeqEmpty
  <2>3. u = SubSeq(Reverse(s), 1, Len(Reverse(s)))
    BY <1>1, <1>3 DEF UpTo
  <2>4. u = Reverse(s)
    BY <1>1, <2>3, SubSeqFull
  <2> HIDE DEF b, u
  <2>5. Count(b, c) = 0 /\ b \in Seq(Codes) /\ Count(u, c) = Count(s, c) /\ Count(s, c) \in Nat
    BY <1>1, <2>2, <2>4, CountEmpty, EmptySeq, PlacesFinite
  <2> QED
    BY <2>5 DEF b, u
<1> QED
  BY <1>2, <1>3

(* What the interleaving of the reversed strands leaves out is what lies   *)
(* beyond.                                                                 *)
LEMMA CountInterleaved ==
  ASSUME Typed, NEW c
  PROVE  /\ Interleaved(Reverse(left), Reverse(right)) \in Seq(Codes)
         /\ Beyond(left) \in Seq(Codes) /\ Beyond(right) \in Seq(Codes)
         /\ Count(Interleaved(Reverse(left), Reverse(right)), c)
               + Count(Beyond(left), c) + Count(Beyond(right), c)
             = Count(left, c) + Count(right, c)
<1> DEFINE l == Reverse(left)
           r == Reverse(right)
           m == Rounds(l, r)
           p == UpTo(l, m)
           q == UpTo(r, m)
<1>1. /\ left \in Seq(Codes) /\ right \in Seq(Codes)
      /\ l \in Seq(Codes) /\ r \in Seq(Codes) /\ Len(l) \in Nat /\ Len(r) \in Nat
      /\ Count(l, c) = Count(left, c) /\ Count(r, c) = Count(right, c)
  BY CountReverse, LenProperties DEF Typed
<1>2. /\ HalfLeft \in Nat /\ HalfRight \in Nat /\ HalfLeft <= HalfRight
  BY HalvesCover
<1> HIDE DEF l, r
<1>3. m \in Nat
  BY <1>1, <1>2 DEF Rounds, Larger
<1>4. /\ Beyond(left) \in Seq(Codes) /\ Beyond(right) \in Seq(Codes)
      /\ Count(p, c) + Count(Beyond(left), c) = Count(left, c)
      /\ Count(q, c) + Count(Beyond(right), c) = Count(right, c)
  <2>1. CASE variant = "lossless"
    <3>1. m = HalfRight
      BY <1>2, <2>1, SMT DEF Rounds, Larger
    <3>2. /\ Beyond(left) = SubSeq(left, 1, Len(left) - HalfRight)
          /\ Beyond(right) = SubSeq(right, 1, Len(right) - HalfRight)
      BY <2>1 DEF Beyond
    <3>3. /\ SubSeq(left, 1, Len(left) - HalfRight) \in Seq(Codes)
          /\ Count(UpTo(Reverse(left), HalfRight), c)
               + Count(SubSeq(left, 1, Len(left) - HalfRight), c) = Count(left, c)
      BY <1>1, <1>2, CountRest
    <3>4. /\ SubSeq(right, 1, Len(right) - HalfRight) \in Seq(Codes)
          /\ Count(UpTo(Reverse(right), HalfRight), c)
               + Count(SubSeq(right, 1, Len(right) - HalfRight), c) = Count(right, c)
      BY <1>1, <1>2, CountRest
    <3> QED
      BY <3>1, <3>2, <3>3, <3>4, Zenon DEF l, r
  <2>2. CASE variant # "lossless"
    <3>1. (m <= Len(l) => m = Len(l)) /\ (m <= Len(r) => m = Len(r))
      BY <1>1, <2>2, SMT DEF Rounds, Larger
    <3> HIDE DEF m
    <3>2. p = SubSeq(l, 1, Len(l)) /\ q = SubSeq(r, 1, Len(r))
      BY <3>1, Zenon DEF UpTo
    <3>3. p = l /\ q = r
      BY <1>1, <3>2, SubSeqFull
    <3>4. Beyond(left) = <<>> /\ Beyond(right) = <<>>
      BY <2>2 DEF Beyond
    <3>5. Count(<<>>, c) = 0 /\ <<>> \in Seq(Codes) /\ Count(left, c) \in Nat /\ Count(right, c) \in Nat
      BY <1>1, CountEmpty, EmptySeq, PlacesFinite
    <3>6. Count(p, c) = Count(left, c) /\ Count(q, c) = Count(right, c)
      BY <1>1, <3>3
    <3> HIDE DEF p, q
    <3> QED
      BY <3>4, <3>5, <3>6
  <2> QED
    BY <2>1, <2>2
<1>5. Interleaved(l, r) = Merged(l, r, m)
  BY DEF Interleaved
<1> HIDE DEF m
<1>6. /\ Merged(l, r, m) \in Seq(Codes)
      /\ Count(Merged(l, r, m), c) = Count(p, c) + Count(q, c)
  BY <1>1, <1>3, CountMerged
<1>7. Count(p, c) \in Nat /\ Count(q, c) \in Nat
  <2>1. ASSUME NEW s \in Seq(Codes) PROVE UpTo(s, m) \in Seq(Codes)
    <3> DEFINE e == IF m <= Len(s) THEN m ELSE Len(s)
    <3>1. Len(s) \in Nat
      BY LenProperties
    <3>2. 0 \in 0 .. Len(s) /\ e \in 0 .. Len(s)
      BY <1>3, <3>1, SMT
    <3> HIDE DEF e
    <3>3. SubSeq(s, 0 + 1, e) \in Seq(Codes)
      BY <3>2, SliceType
    <3> QED
      BY <3>3 DEF UpTo, e
  <2> QED
    BY <1>1, <2>1, PlacesFinite
<1> HIDE DEF p, q
<1>8. Count(Beyond(left), c) \in Nat /\ Count(Beyond(right), c) \in Nat
  BY <1>4, PlacesFinite
<1>9. Count(Interleaved(l, r), c) + Count(Beyond(left), c) + Count(Beyond(right), c)
        = Count(left, c) + Count(right, c)
  <2> DEFINE x == Count(Interleaved(l, r), c)
             y == Count(Beyond(left), c)
             z == Count(Beyond(right), c)
             v == Count(left, c)
             w == Count(right, c)
             a == Count(p, c)
             b == Count(q, c)
  <2>1. x = a + b /\ a + y = v /\ b + z = w /\ a \in Nat /\ b \in Nat /\ y \in Nat /\ z \in Nat
    BY <1>4, <1>5, <1>6, <1>7, <1>8
  <2> HIDE DEF x, y, z, v, w, a, b
  <2>2. x + y + z = v + w
    BY <2>1
  <2> QED
    BY <2>2 DEF x, y, z, v, w
<1> QED
  BY <1>4, <1>5, <1>6, <1>9 DEF l, r

-----------------------------------------------------------------------------
(* The steps.                                                              *)
LEMMA BraidInit == PipelineInit => BraidInv
<1> SUFFICES ASSUME PipelineInit PROVE BraidInv
  OBVIOUS
<1>1. /\ variant \in Variants /\ text \in Texts /\ kappa \in Keys
      /\ phase = "braid" /\ n = 1 /\ cursor = 0 /\ stream = <<>>
      /\ left = Strand(Each(text, kappa), 1) /\ right = Strand(Each(text, kappa), 2)
  BY DEF PipelineInit, Init
<1>2. <<>> \in Seq(Codes) /\ 0 \in 0 .. Len(<<>>) /\ n \in Nat
  BY <1>1, EmptySeq
<1>3. Each(text, kappa) \in Seq(Codes)
  <2>1. text \in Seq(Codes \ Surrogates) /\ kappa \in Nat
    BY <1>1, CodeAssumption
  <2>2. text \in Seq(Codes) /\ kappa \in Int
    BY <2>1, SeqMonotonic, SMT
  <2> QED
    BY <1>1, <2>2, EachType
<1>4. ASSUME NEW c
      PROVE  /\ left \in Seq(Codes) /\ right \in Seq(Codes)
             /\ Count(left, c) + Count(right, c) + Count(stream, c) = Count(Each(text, kappa), c)
  <2>1. /\ left \in Seq(Codes) /\ right \in Seq(Codes)
        /\ Count(Each(text, kappa), c) = Count(left, c) + Count(right, c)
    BY <1>1, <1>3, CountStrands
  <2>2. Count(left, c) \in Nat /\ Count(right, c) \in Nat /\ Count(stream, c) = 0
    BY <1>1, <2>1, PlacesFinite, CountEmpty
  <2> QED
    BY <2>1, <2>2
<1>5. Typed
  BY <1>1, <1>2, <1>4 DEF Typed
<1>6. Braided
  BY <1>1, <1>4 DEF Braided
<1> QED
  BY <1>1, <1>5, <1>6 DEF BraidInv, DealtOut, ReverseKeepsAll

LEMMA CallStays ==
  ASSUME UNCHANGED <<variant, text, kappa>>
  PROVE  Each(text, kappa)' = Each(text, kappa) /\ Kept' = Kept
BY DEF Each, Shifted, Kept

LEMMA BraidRoundKeeps == BraidInv /\ BraidRound => BraidInv'
<1> SUFFICES ASSUME BraidInv, BraidRound PROVE BraidInv'
  OBVIOUS
<1> DEFINE P == Filtered(Popped(left, Taken(left, n)))
           Q == Filtered(Popped(right, Taken(right, n + 1)))
<1>1. /\ phase = "braid" /\ stream' = (stream \o P) \o Q
      /\ left' = Shortened(left, Taken(left, n)) /\ right' = Shortened(right, Taken(right, n + 1))
      /\ n' = n + 1 /\ UNCHANGED <<variant, text, kappa, phase, cursor, restored>>
  BY DEF BraidRound, NextRound
<1>2. /\ left \in Seq(Codes) /\ right \in Seq(Codes) /\ stream \in Seq(Codes) /\ n \in Nat
      /\ n + 1 \in Nat /\ cursor = 0
  BY <1>1, SMT DEF BraidInv, Typed, Braided
<1>3. ASSUME NEW c
      PROVE  /\ left' \in Seq(Codes) /\ P \in Seq(Codes)
             /\ c \in Kept => Count(left, c) = Count(left', c) + Count(P, c)
  BY <1>1, <1>2, OneTaken
<1>4. ASSUME NEW c
      PROVE  /\ right' \in Seq(Codes) /\ Q \in Seq(Codes)
             /\ c \in Kept => Count(right, c) = Count(right', c) + Count(Q, c)
  BY <1>1, <1>2, OneTaken
<1> HIDE DEF P, Q
<1>5. P \in Seq(Codes) /\ Q \in Seq(Codes) /\ left' \in Seq(Codes) /\ right' \in Seq(Codes)
  BY <1>3, <1>4
<1>6. stream' \in Seq(Codes)
  BY <1>1, <1>2, <1>5, CountThree
<1>7. ASSUME NEW c \in Kept
      PROVE  Count(left', c) + Count(right', c) + Count(stream', c) = Count(Each(text, kappa), c)
  <2>1. Count(left, c) = Count(left', c) + Count(P, c)
    BY <1>3
  <2>2. Count(right, c) = Count(right', c) + Count(Q, c)
    BY <1>4
  <2>3. Count(stream', c) = (Count(stream, c) + Count(P, c)) + Count(Q, c)
    BY <1>1, <1>2, <1>5, CountThree
  <2>4. Count(left, c) + Count(right, c) + Count(stream, c) = Count(Each(text, kappa), c)
    BY <1>1 DEF BraidInv, Braided
  <2>5. /\ Count(left', c) \in Nat /\ Count(right', c) \in Nat /\ Count(stream, c) \in Nat
        /\ Count(P, c) \in Nat /\ Count(Q, c) \in Nat
    BY <1>2, <1>5, PlacesFinite
  <2> QED
    BY <2>1, <2>2, <2>3, <2>4, <2>5
<1>8. Typed'
  <2>1. cursor' \in 0 .. Len(stream')
    BY <1>1, <1>2, <1>6, LenProperties, SMT
  <2>2. n' \in Nat
    BY <1>1, <1>2
  <2>3. /\ variant' \in Variants /\ text' \in Texts /\ kappa' \in Keys
        /\ phase' \in {"braid", "unbraid", "done"}
    BY <1>1 DEF BraidInv, Typed
  <2> QED
    BY <1>5, <1>6, <2>1, <2>2, <2>3 DEF Typed
<1>9. Braided'
  <2>1. Each(text, kappa)' = Each(text, kappa) /\ Kept' = Kept
    BY <1>1, CallStays
  <2>2. phase' = "braid" /\ cursor' = 0
    BY <1>1, <1>2
  <2> QED
    BY <1>7, <2>1, <2>2 DEF Braided
<1> QED
  BY <1>1, <1>8, <1>9 DEF BraidInv, DealtOut, ReverseKeepsAll

LEMMA EndBraidKeeps == BraidInv /\ EndBraid => BraidInv'
<1> SUFFICES ASSUME BraidInv, EndBraid PROVE BraidInv'
  OBVIOUS
<1>1. /\ phase = "braid" /\ left = <<>> /\ right = <<>> /\ phase' = "unbraid" /\ n' = 1
      /\ UNCHANGED <<variant, text, kappa, left, right, stream, cursor, restored>>
  BY DEF EndBraid
<1>2. stream \in Seq(Codes) /\ cursor = 0
  BY <1>1 DEF BraidInv, Typed, Braided
<1>3. Typed'
  BY <1>1 DEF BraidInv, Typed
<1>4. Braided'
  <2>1. Each(text, kappa)' = Each(text, kappa) /\ Kept' = Kept
    BY <1>1, CallStays
  <2>2. ASSUME NEW c \in Kept PROVE Count(stream, c) = Count(Each(text, kappa), c)
    <3>1. Count(left, c) + Count(right, c) + Count(stream, c) = Count(Each(text, kappa), c)
      BY <1>1 DEF BraidInv, Braided
    <3>2. Count(left, c) = 0 /\ Count(right, c) = 0 /\ Count(stream, c) \in Nat
      BY <1>1, <1>2, CountEmpty, PlacesFinite
    <3> QED
      BY <3>1, <3>2
  <2> QED
    BY <1>1, <2>1, <2>2 DEF Braided
<1>5. DealtOut'
  <2>1. SubSeq(stream, 1, 0) = <<>>
    BY SubSeqEmpty, SMT
  <2>2. \A c : Count(left', c) + Count(right', c) = Count(SubSeq(stream', 1, cursor'), c)
    <3>1. left' = <<>> /\ right' = <<>> /\ SubSeq(stream', 1, cursor') = <<>>
      BY <1>1, <1>2, <2>1
    <3>2. \A c : Count(<<>>, c) + Count(<<>>, c) = Count(<<>>, c)
      BY CountEmpty
    <3> QED
      BY <3>1, <3>2, Zenon
  <2> QED
    BY <2>2 DEF DealtOut
<1> QED
  BY <1>1, <1>3, <1>4, <1>5 DEF BraidInv, ReverseKeepsAll

LEMMA UnbraidRoundKeeps == BraidInv /\ UnbraidRound => BraidInv'
<1> SUFFICES ASSUME BraidInv, UnbraidRound PROVE BraidInv'
  OBVIOUS
<1> DEFINE l == Dealt(cursor, Portion(n, HalfLeft))
           r == Dealt(cursor + Len(l), Portion(n + 1, HalfRight))
<1>1. /\ phase = "unbraid" /\ left' = left \o l /\ right' = right \o r
      /\ cursor' = cursor + Len(l) + Len(r) /\ n' = n + 1
      /\ UNCHANGED <<variant, text, kappa, phase, stream, restored>>
  BY DEF UnbraidRound, NextRound
<1>2. /\ left \in Seq(Codes) /\ right \in Seq(Codes) /\ stream \in Seq(Codes)
      /\ n \in Nat /\ cursor \in 0 .. Len(stream)
  BY DEF BraidInv, Typed
<1>3. Portion(n, HalfLeft) \in Nat /\ Portion(n + 1, HalfRight) \in Nat
  <2>1. HalfLeft \in Nat /\ HalfRight \in Nat
    BY HalvesCover DEF BraidInv
  <2>2. HalfLeft \in Nat /\ HalfRight \in Nat /\ n + 1 \in Nat
    BY <1>2, <2>1, SMT
  <2>3. Portion(n, HalfLeft) \in 0 .. HalfLeft /\ Portion(n + 1, HalfRight) \in 0 .. HalfRight
    BY <1>2, <2>2, PortionFits
  <2> QED
    BY <2>2, <2>3, SMT
<1>4. /\ l \in Seq(Codes) /\ cursor + Len(l) \in 0 .. Len(stream)
      /\ \A c : Count(SubSeq(stream, 1, cursor + Len(l)), c)
                  = Count(SubSeq(stream, 1, cursor), c) + Count(l, c)
  BY <1>2, <1>3, OneDealt
<1> HIDE DEF l
<1>5. /\ r \in Seq(Codes) /\ cursor + Len(l) + Len(r) \in 0 .. Len(stream)
      /\ \A c : Count(SubSeq(stream, 1, cursor + Len(l) + Len(r)), c)
                  = Count(SubSeq(stream, 1, cursor + Len(l)), c) + Count(r, c)
  BY <1>2, <1>3, <1>4, OneDealt
<1> HIDE DEF r
<1>6. Typed'
  <2>1. left' \in Seq(Codes) /\ right' \in Seq(Codes)
    BY <1>1, <1>2, <1>4, <1>5, CountConcat
  <2>2. n' \in Nat /\ cursor' \in 0 .. Len(stream')
    BY <1>1, <1>2, <1>5
  <2>3. /\ variant' \in Variants /\ text' \in Texts /\ kappa' \in Keys
        /\ phase' \in {"braid", "unbraid", "done"} /\ stream' \in Seq(Codes)
    BY <1>1 DEF BraidInv, Typed
  <2> QED
    BY <2>1, <2>2, <2>3 DEF Typed
<1>7. Braided'
  <2>1. Each(text, kappa)' = Each(text, kappa) /\ Kept' = Kept
    BY <1>1, CallStays
  <2> QED
    BY <1>1, <2>1 DEF BraidInv, Braided
<1>8. DealtOut'
  <2>1. ASSUME NEW c \in Codes
        PROVE  Count(left', c) + Count(right', c) = Count(SubSeq(stream', 1, cursor'), c)
    <3>1. Count(left, c) + Count(right, c) = Count(SubSeq(stream, 1, cursor), c)
      BY <1>1 DEF BraidInv, DealtOut
    <3>2. Count(left', c) = Count(left, c) + Count(l, c)
      BY <1>1, <1>2, <1>4, CountConcat
    <3>3. Count(right', c) = Count(right, c) + Count(r, c)
      BY <1>1, <1>2, <1>5, CountConcat
    <3>4. Count(SubSeq(stream', 1, cursor'), c)
            = (Count(SubSeq(stream, 1, cursor), c) + Count(l, c)) + Count(r, c)
      BY <1>1, <1>4, <1>5, Zenon
    <3>5. /\ Count(left, c) \in Nat /\ Count(right, c) \in Nat
          /\ Count(l, c) \in Nat /\ Count(r, c) \in Nat
      BY <1>2, <1>4, <1>5, PlacesFinite
    <3> QED
      BY <3>1, <3>2, <3>3, <3>4, <3>5
  <2> QED
    BY <2>1 DEF DealtOut
<1> QED
  BY <1>1, <1>6, <1>7, <1>8 DEF BraidInv, ReverseKeepsAll

LEMMA EndUnbraidKeeps == BraidInv /\ EndUnbraid => BraidInv'
<1> SUFFICES ASSUME BraidInv, EndUnbraid PROVE BraidInv'
  OBVIOUS
<1> DEFINE merged == Interleaved(Reverse(left), Reverse(right))
           lost == Beyond(left)
           gone == Beyond(right)
           all == (merged \o lost) \o gone
           d == -kappa
<1>1. /\ phase = "unbraid" /\ cursor >= Len(stream) /\ phase' = "done"
      /\ restored' = Each(merged, d)
      /\ UNCHANGED <<variant, text, kappa, left, right, stream, cursor, n>>
  BY DEF EndUnbraid
<1>2. /\ left \in Seq(Codes) /\ right \in Seq(Codes) /\ stream \in Seq(Codes)
      /\ cursor \in 0 .. Len(stream) /\ variant \in Variants /\ Typed
  BY DEF BraidInv, Typed
<1>3. Typed'
  BY <1>1 DEF BraidInv, Typed
<1>4. Braided'
  <2>1. Each(text, kappa)' = Each(text, kappa) /\ Kept' = Kept
    BY <1>1, CallStays
  <2> QED
    BY <1>1, <2>1 DEF BraidInv, Braided
<1>5. /\ merged \in Seq(Codes) /\ lost \in Seq(Codes) /\ gone \in Seq(Codes)
      /\ \A c : Count(merged, c) + Count(lost, c) + Count(gone, c) = Count(left, c) + Count(right, c)
  BY <1>2, CountInterleaved
<1>6. text \in Seq(Codes) /\ kappa \in Int /\ d \in Int
  BY CallType DEF BraidInv
<1>7. /\ Beyond(left)' = lost /\ Beyond(right)' = gone
      /\ Each(Beyond(left), -kappa)' = Each(lost, d) /\ Each(Beyond(right), -kappa)' = Each(gone, d)
      /\ Each(stream, -kappa)' = Each(stream, d)
  <2>1. Beyond(left)' = lost /\ Beyond(right)' = gone
    BY <1>1 DEF Beyond, HalfRight, HalfLeft, OriginalLen
  <2> QED
    BY <1>1, <2>1 DEF Each, Shifted
<1> HIDE DEF merged, lost, gone, d
<1>8. \A c \in Codes : Count(left, c) + Count(right, c) = Count(stream, c)
  <2>1. SubSeq(stream, 1, cursor) = stream
    <3>1. cursor = Len(stream)
      BY <1>1, <1>2, LenProperties, SMT
    <3> QED
      BY <1>2, <3>1, SubSeqFull
  <2> QED
    BY <1>1, <2>1 DEF BraidInv, DealtOut
<1>9. all \in Seq(Codes) /\ \A c \in Codes : Count(all, c) = Count(stream, c)
  <2>1. all \in Seq(Codes)
    BY <1>5, CountThree
  <2>2. ASSUME NEW c \in Codes PROVE Count(all, c) = Count(stream, c)
    <3>1. Count(all, c) = (Count(merged, c) + Count(lost, c)) + Count(gone, c)
      BY <1>5, CountThree
    <3> QED
      BY <1>5, <1>8, <3>1, Zenon
  <2> QED
    BY <2>1, <2>2
<1>10. Each(all, d) = (Each(merged, d) \o Each(lost, d)) \o Each(gone, d)
  <2> DEFINE most == merged \o lost
  <2>1. most \in Seq(Codes) /\ Each(most, d) = Each(merged, d) \o Each(lost, d)
    <3>1. most \in Seq(Codes)
      BY <1>5, CountConcat
    <3>2. Each(merged \o lost, d) = Each(merged, d) \o Each(lost, d)
      BY <1>2, <1>5, <1>6, EachConcat, ZenonT(40)
    <3> QED
      BY <3>1, <3>2, Zenon
  <2> HIDE DEF most
  <2>2. Each(most \o gone, d) = Each(most, d) \o Each(gone, d)
    BY <1>2, <1>5, <1>6, <2>1, EachConcat, ZenonT(40)
  <2> QED
    BY <2>1, <2>2, Zenon DEF most
<1>11. ASSUME NEW c \in Codes
       PROVE  Count(restored', c) + Count(Each(lost, d), c) + Count(Each(gone, d), c)
                = Count(Each(stream, d), c)
  <2>1. Count(Each(all, d), c) = Count(Each(stream, d), c)
    <3> HIDE DEF all
    <3> QED
      BY <1>2, <1>6, <1>9, ShiftMoves
  <2>2. Each(merged, d) \in Seq(Codes) /\ Each(lost, d) \in Seq(Codes) /\ Each(gone, d) \in Seq(Codes)
    BY <1>2, <1>5, <1>6, EachType
  <2> DEFINE x == Each(merged, d)
             y == Each(lost, d)
             z == Each(gone, d)
  <2> HIDE DEF x, y, z
  <2>3. Count((x \o y) \o z, c) = (Count(x, c) + Count(y, c)) + Count(z, c)
    BY <2>2, CountThree DEF x, y, z
  <2> QED
    BY <1>1, <1>10, <2>1, <2>3, Zenon DEF x, y, z
<1>12. ASSUME variant = "python", NEW c \in Codes PROVE Count(restored', c) = Count(text, c)
  <2> DEFINE e == (c - d) % CodeSize
  <2>1. e \in Codes /\ Count(restored', c) = Count(merged, e)
    BY <1>1, <1>2, <1>5, <1>6, <1>12, CountShifted
  <2> HIDE DEF e
  <2>2. Count(merged, e) = Count(stream, e)
    <3>1. lost = <<>> /\ gone = <<>>
      BY <1>12 DEF lost, gone, Beyond
    <3>2. Count(merged, e) + 0 + 0 = Count(stream, e) /\ Count(merged, e) \in Nat
      BY <1>5, <1>8, <2>1, <3>1, CountEmpty, PlacesFinite, Zenon
    <3> QED
      BY <3>2
  <2>3. Count(stream, e) = Count(Each(text, kappa), e)
    BY <1>1, <1>12, <2>1 DEF BraidInv, Braided, Kept
  <2>4. Count(Each(text, kappa), e) = Count(text, (e - kappa) % CodeSize)
    BY <1>2, <1>6, <1>12, <2>1, CountShifted
  <2>5. (e - kappa) % CodeSize = c
    <3>1. CodeSize \in Nat \ {0} /\ c \in 0 .. CodeSize - 1
      BY CodeAssumption DEF Codes
    <3>2. (e + d) % CodeSize = c
      BY <1>6, <3>1, ShiftForth DEF e
    <3>3. e \in Int
      BY <2>1, <3>1, SMT DEF Codes
    <3> QED
      BY <1>6, <3>2, <3>3, SMT DEF d
  <2> QED
    BY <2>1, <2>2, <2>3, <2>4, <2>5, Zenon
<1>13. ReverseKeepsAll'
  <2>1. ASSUME NEW c \in Codes
        PROVE  Count(restored', c) + Count(Each(Beyond(left), -kappa)', c)
                 + Count(Each(Beyond(right), -kappa)', c) = Count(Each(stream, -kappa)', c)
    BY <1>7, <1>11, Zenon
  <2>2. ASSUME NEW c PROVE
          /\ Count(restored, c)' = Count(restored', c)
          /\ Count(Each(Beyond(left), -kappa), c)' = Count(Each(Beyond(left), -kappa)', c)
          /\ Count(Each(Beyond(right), -kappa), c)' = Count(Each(Beyond(right), -kappa)', c)
          /\ Count(Each(stream, -kappa), c)' = Count(Each(stream, -kappa)', c)
    BY DEF Count
  <2> QED
    BY <1>1, <1>12, <2>1, <2>2 DEF ReverseKeepsAll
<1> QED
  BY <1>1, <1>3, <1>4, <1>13 DEF BraidInv, DealtOut

LEMMA BraidStays == BraidInv /\ UNCHANGED vars => BraidInv'
<1> SUFFICES ASSUME BraidInv, UNCHANGED vars PROVE BraidInv'
  OBVIOUS
<1>1. UNCHANGED <<variant, text, kappa, phase, left, right, stream, cursor, n, restored>>
  BY DEF vars
<1>2. Each(text, kappa)' = Each(text, kappa) /\ Kept' = Kept
  BY <1>1, CallStays
<1>3. Typed' /\ DealtOut' /\ ReverseKeepsAll'
  <2>1. /\ Beyond(left)' = Beyond(left) /\ Beyond(right)' = Beyond(right)
        /\ Each(Beyond(left), -kappa)' = Each(Beyond(left), -kappa)
        /\ Each(Beyond(right), -kappa)' = Each(Beyond(right), -kappa)
        /\ Each(stream, -kappa)' = Each(stream, -kappa)
    BY <1>1 DEF Beyond, HalfRight, HalfLeft, OriginalLen, Each, Shifted
  <2> QED
    BY <1>1, <2>1 DEF BraidInv, Typed, DealtOut, ReverseKeepsAll
<1>4. Braided'
  BY <1>1, <1>2 DEF BraidInv, Braided
<1> QED
  BY <1>3, <1>4 DEF BraidInv

(* The rest of the pipeline does not touch the braid. *)
LEMMA BraidStep == BraidInv /\ [Next]_<<vars, pipeline>> => BraidInv'
<1> SUFFICES ASSUME BraidInv, [Next]_<<vars, pipeline>> PROVE BraidInv'
  OBVIOUS
<1>1. CASE Braiding
  BY <1>1, BraidRoundKeeps, EndBraidKeeps DEF Braiding
<1>2. CASE Reversing
  BY <1>2, UnbraidRoundKeeps DEF Reversing
<1>3. CASE Restore
  BY <1>3, EndUnbraidKeeps DEF Restore
<1>4. CASE Seal \/ Collect \/ Refuse \/ Open
  <2>1. UNCHANGED vars
    BY <1>4 DEF Seal, Collect, Refuse, Open
  <2> QED
    BY <2>1, BraidStays
<1>5. CASE UNCHANGED <<vars, pipeline>>
  BY <1>5, BraidStays
<1> QED
  BY <1>1, <1>2, <1>3, <1>4, <1>5 DEF Next, Running

THEOREM BraidInvariance == Spec => []BraidInv
BY BraidInit, BraidStep, PTL DEF Spec

(* For every text, key, code space and filter: no round of the braid loses *)
(* or repeats a character that the filter lets pass.                       *)
THEOREM BraidLosesNothing == Spec => []BraidKeepsAll
<1>1. BraidInv => BraidKeepsAll
  BY DEF BraidInv, Braided, BraidKeepsAll, Kept
<1> QED
  BY <1>1, BraidInvariance, PTL

(* And the reverse gives back every character of the stream, but for those *)
(* that the lossless Rust code has beyond the halves; the Python code      *)
(* every one of the text.                                                  *)
THEOREM ReverseLosesNothing == Spec => []ReverseKeepsAll
<1>1. BraidInv => ReverseKeepsAll
  BY DEF BraidInv
<1> QED
  BY <1>1, BraidInvariance, PTL

-----------------------------------------------------------------------------
(* Arithmetic modulo the prime.  Two numbers are the same if they differ   *)
(* by a multiple of it.                                                    *)
Same(a, b) == \E q \in Int : a = b + Prime * q

LEMMA SameSelf == ASSUME NEW a \in Int PROVE Same(a, a)
<1>1. Prime \in Int /\ 0 \in Int
  BY PrimeAssumption, SMT
<1>2. a = a + Prime * 0
  BY <1>1, SMT
<1> QED
  BY <1>1, <1>2 DEF Same

LEMMA SameBack == ASSUME NEW a \in Int, NEW b \in Int, Same(a, b) PROVE Same(b, a)
<1> DEFINE M == Prime
<1>1. M \in Int
  BY PrimeAssumption, SMT
<1>2. PICK q \in Int : a = b + M * q
  BY DEF Same
<1> HIDE DEF M
<1>3. -q \in Int /\ b = a + M * (-q)
  BY <1>1, <1>2, SMT
<1> QED
  BY <1>3 DEF Same, M

LEMMA SameOn ==
  ASSUME NEW a \in Int, NEW b \in Int, NEW c \in Int, Same(a, b), Same(b, c) PROVE Same(a, c)
<1> DEFINE M == Prime
<1>1. M \in Int
  BY PrimeAssumption, SMT
<1>2. PICK q \in Int : a = b + M * q
  BY DEF Same
<1>3. PICK r \in Int : b = c + M * r
  BY DEF Same
<1> HIDE DEF M
<1>4. r + q \in Int /\ a = c + M * (r + q)
  BY <1>1, <1>2, <1>3, SMT
<1> QED
  BY <1>4 DEF Same, M

LEMMA SameSum ==
  ASSUME NEW a \in Int, NEW b \in Int, NEW c \in Int, NEW d \in Int, Same(a, b), Same(c, d)
  PROVE  Same(a + c, b + d)
<1> DEFINE M == Prime
<1>1. M \in Int
  BY PrimeAssumption, SMT
<1>2. PICK q \in Int : a = b + M * q
  BY DEF Same
<1>3. PICK r \in Int : c = d + M * r
  BY DEF Same
<1> HIDE DEF M
<1>4. q + r \in Int /\ a + c = (b + d) + M * (q + r)
  BY <1>1, <1>2, <1>3, SMT
<1> QED
  BY <1>4 DEF Same, M

LEMMA SameTimes ==
  ASSUME NEW a \in Int, NEW b \in Int, NEW c \in Int, Same(a, b)
  PROVE  Same(a * c, b * c) /\ Same(c * a, c * b)
<1> DEFINE M == Prime
<1>1. M \in Int
  BY PrimeAssumption, SMT
<1>2. PICK q \in Int : a = b + M * q
  BY DEF Same
<1> HIDE DEF M
<1>3. /\ q * c \in Int
      /\ (b + M * q) * c = b * c + M * (q * c)
      /\ c * (b + M * q) = c * b + M * (q * c)
  BY <1>1, SMT
<1> QED
  BY <1>2, <1>3 DEF Same, M

LEMMA SameRemainder ==
  ASSUME NEW a \in Int
  PROVE  Same(a % Prime, a) /\ Same(a, a % Prime) /\ a % Prime \in 0 .. Prime - 1
<1>1. Prime \in Nat \ {0}
  BY PrimeAssumption, SMT
<1>2. a = Prime * (a \div Prime) + (a % Prime) /\ a % Prime \in 0 .. Prime - 1 /\ a \div Prime \in Int
  BY <1>1, Division
<1> DEFINE r == a % Prime
           q == a \div Prime
           M == Prime
<1>3. M \in Int /\ r \in Int
  BY <1>1, <1>2, SMT
<1>4. a = M * q + r /\ q \in Int
  BY <1>2
<1> HIDE DEF r, q, M
<1>5. a = r + M * q
  BY <1>3, <1>4, SMT
<1>6. Same(a, r)
  BY <1>4, <1>5 DEF Same, M
<1>7. Same(r, a)
  BY <1>3, <1>6, SameBack
<1> QED
  BY <1>2, <1>6, <1>7 DEF r

LEMMA SameNumber ==
  ASSUME NEW a \in 0 .. Prime - 1, NEW b \in 0 .. Prime - 1, Same(a, b) PROVE a = b
<1> DEFINE M == Prime
<1>1. M \in Nat \ {0}
  BY PrimeAssumption, SMT
<1>2. PICK q \in Int : a = b + M * q
  BY DEF Same
<1>3. a \in 0 .. M - 1 /\ b \in 0 .. M - 1
  OBVIOUS
<1> HIDE DEF M
<1>4. 0 \in Int /\ M * 0 + a = M * q + b
  BY <1>1, <1>2, <1>3, SMT
<1> QED
  BY <1>1, <1>3, <1>4, Remainder

(* Numbers that are no multiples have an inverse: the least positive       *)
(* combination of such a number and the prime divides both, hence is one.  *)
Combination(d, a) == \E u, v \in Int : d = a * u + Prime * v

LEMMA CombinationRest ==
  ASSUME NEW a \in Int, NEW d \in Nat \ {0}, NEW x \in Int, Combination(d, a), Combination(x, a)
  PROVE  Combination(x % d, a)
<1> DEFINE M == Prime
           q == x \div d
           r == x % d
<1>1. M \in Int
  BY PrimeAssumption, SMT
<1>2. PICK u \in Int, v \in Int : d = a * u + M * v
  BY DEF Combination
<1>3. PICK s \in Int, t \in Int : x = a * s + M * t
  BY DEF Combination
<1>4. x = d * q + r /\ q \in Int /\ r \in Int
  BY Division, 0 .. d - 1 \subseteq Int
<1> HIDE DEF M, q, r
<1>5. r = x - d * q
  BY <1>4, SMT
<1>6. /\ s - u * q \in Int /\ t - v * q \in Int
      /\ (a * s + M * t) - (a * u + M * v) * q = a * (s - u * q) + M * (t - v * q)
  BY <1>1, <1>4, SMT
<1>7. r = a * (s - u * q) + M * (t - v * q)
  BY <1>2, <1>3, <1>5, <1>6, Zenon
<1> QED
  BY <1>6, <1>7 DEF Combination, M, r

LEMMA InverseExists ==
  ASSUME NEW a \in Int, ~ Same(a, 0) PROVE \E u \in Int : Same(a * u, 1)
<1> DEFINE T == {d \in Nat \ {0} : Combination(d, a)}
<1>1. Prime \in Nat \ {0} /\ Prime \in Int /\ Prime > 1 /\ 0 \in Int /\ 1 \in Int
  BY PrimeAssumption, SMT
<1>2. Combination(Prime, a) /\ Combination(a, a)
  <2>1. Prime = a * 0 + Prime * 1 /\ a = a * 1 + Prime * 0
    BY <1>1, SMT
  <2> QED
    BY <1>1, <2>1 DEF Combination
<1>3. PICK d \in T : \A x \in T : d <= x
  <2>1. Prime \in T /\ T \in SUBSET Nat
    BY <1>1, <1>2
  <2> HIDE DEF T
  <2> QED
    BY <2>1, LeastElement
<1>4. d \in Nat \ {0} /\ Combination(d, a)
  OBVIOUS
<1>5. ASSUME NEW x \in Int, Combination(x, a) PROVE x % d = 0
  <2>1. Combination(x % d, a)
    BY <1>4, <1>5, CombinationRest
  <2>2. x % d \in 0 .. d - 1
    BY <1>4, Division
  <2>3. CASE x % d # 0
    <3>1. x % d \in T
      <4>1. x % d \in Nat \ {0}
        BY <1>4, <2>2, <2>3, SMT
      <4> QED
        BY <2>1, <4>1
    <3>2. d <= x % d
      BY <1>3, <3>1
    <3> QED
      BY <1>4, <2>2, <3>2, SMT
  <2> QED
    BY <2>3
<1>6. Prime % d = 0 /\ a % d = 0
  BY <1>1, <1>2, <1>5
<1>7. d <= Prime
  BY <1>1, <1>2, <1>3
<1>8. d = 1 \/ d = Prime
  <2>1. ~(d \in 2 .. Prime - 1)
    BY <1>6, PrimeAssumption
  <2> QED
    BY <1>1, <1>4, <1>7, <2>1, SMT
<1>9. CASE d = Prime
  <2>1. Same(a, a % Prime)
    BY SameRemainder
  <2> QED
    BY <1>6, <1>9, <2>1
<1>10. CASE d = 1
  <2>1. PICK u \in Int, v \in Int : d = a * u + Prime * v
    BY <1>4 DEF Combination
  <2> DEFINE w == a * u
             M == Prime
  <2>2. w \in Int /\ M \in Int /\ 1 = w + M * v
    BY <1>1, <1>10, <2>1, SMT
  <2> HIDE DEF w, M
  <2>3. Same(1, w)
    BY <2>2 DEF Same, M
  <2>4. Same(w, 1)
    BY <1>1, <2>2, <2>3, SameBack
  <2> QED
    BY <2>4 DEF w
<1> QED
  BY <1>8, <1>9, <1>10

(* A product is a multiple only if a factor is.                            *)
LEMMA Euclid ==
  ASSUME NEW a \in Int, NEW b \in Int, ~ Same(a, 0), Same(a * b, 0) PROVE Same(b, 0)
<1>1. PICK u \in Int : Same(a * u, 1)
  BY InverseExists
<1>2. /\ a * b \in Int /\ a * u \in Int /\ (a * b) * u \in Int /\ (a * u) * b \in Int
      /\ (a * b) * u = (a * u) * b /\ 0 * u = 0 /\ 1 * b = b /\ 0 \in Int /\ 1 \in Int
  BY SMT
<1>3. Same((a * b) * u, 0 * u)
  BY <1>2, SameTimes
<1>4. Same((a * u) * b, 1 * b)
  BY <1>1, <1>2, SameTimes
<1>5. Same((a * u) * b, 0) /\ Same((a * u) * b, b)
  BY <1>2, <1>3, <1>4, Zenon
<1>6. Same(b, (a * u) * b)
  BY <1>2, <1>5, SameBack
<1> QED
  BY <1>2, <1>5, <1>6, SameOn

LEMMA BySteps ==
  ASSUME NEW T \in SUBSET Nat, 0 \in T, \A i \in T : i + 1 \in T PROVE \A i \in Nat : i \in T
<1> SUFFICES ASSUME Nat \ T # {} PROVE FALSE
  OBVIOUS
<1>1. PICK m \in Nat \ T : \A j \in Nat \ T : m <= j
  <2>1. Nat \ T \in SUBSET Nat
    OBVIOUS
  <2> QED
    BY <2>1, LeastElement
<1>2. m # 0
  BY <1>1
<1>3. m - 1 \in Nat /\ (m - 1) + 1 = m /\ ~(m <= m - 1)
  BY <1>2, SMT
<1>4. m - 1 \in T
  BY <1>1, <1>3
<1>5. (m - 1) + 1 \in T
  BY <1>4
<1> QED
  BY <1>1, <1>3, <1>5

-----------------------------------------------------------------------------
(* Polynomials with m coefficients, by Horner's rule.                      *)
Maps == [Int -> Int]

Horner(h, c, m) ==
  h[0] = [z \in Int |-> 0] /\ \A i \in 1 .. m : h[i] = [z \in Int |-> z * h[i - 1][z] + c[i]]

Poly(m) == {f \in Maps : \E h \in [0 .. m -> Maps], c \in [1 .. m -> Int] :
                           Horner(h, c, m) /\ h[m] = f}

LEMMA PolyNone == \A f : f \in Poly(0) <=> f = [z \in Int |-> 0]
<1> DEFINE zero == [z \in Int |-> 0]
<1>1. zero \in Maps
  BY SMT DEF Maps
<1>2. zero \in Poly(0)
  <2> DEFINE h == [i \in 0 .. 0 |-> zero]
             c == [i \in 1 .. 0 |-> 0]
  <2>1. 0 \in 0 .. 0 /\ 1 .. 0 = {}
    BY SMT
  <2>2. h \in [0 .. 0 -> Maps] /\ h[0] = zero
    BY <1>1, <2>1
  <2>3. c \in [1 .. 0 -> Int]
    BY <2>1
  <2> HIDE DEF h, c
  <2>4. Horner(h, c, 0)
    BY <2>1, <2>2 DEF Horner
  <2> QED
    BY <1>1, <2>2, <2>3, <2>4 DEF Poly
<1>3. \A f \in Poly(0) : f = zero
  BY DEF Poly, Horner
<1> QED
  BY <1>2, <1>3

LEMMA PolyGrows ==
  ASSUME NEW m \in Nat, NEW g \in Poly(m), NEW d \in Int
  PROVE  [z \in Int |-> z * g[z] + d] \in Poly(m + 1)
<1> DEFINE f == [z \in Int |-> z * g[z] + d]
           e == m + 1
<1>1. PICK h \in [0 .. m -> Maps], c \in [1 .. m -> Int] : Horner(h, c, m) /\ h[m] = g
  BY DEF Poly
<1>2. f \in Maps
  <2>1. g \in Maps
    BY DEF Poly
  <2>2. \A z \in Int : g[z] \in Int
    BY <2>1 DEF Maps
  <2>3. \A z \in Int : z * g[z] + d \in Int
    BY <2>2, SMT
  <2> QED
    BY <2>3 DEF Maps
<1>3. /\ e \in Nat /\ e - 1 = m /\ e \notin 0 .. m /\ e \in 1 .. e /\ e \in 0 .. e
      /\ \A i \in 0 .. e : i \in 0 .. m \/ i = e
      /\ \A i \in 1 .. e : i \in 1 .. m \/ i = e
      /\ \A i \in 1 .. m : i \in 0 .. m /\ i - 1 \in 0 .. m /\ i # e /\ i \in 1 .. e
      /\ \A i \in 0 .. m : i # e /\ i \in 0 .. e
      /\ 0 \in 0 .. m /\ m \in 0 .. m
  BY SMT
<1> HIDE DEF f, e
<1> DEFINE hh == [i \in 0 .. e |-> IF i = e THEN f ELSE h[i]]
           cc == [i \in 1 .. e |-> IF i = e THEN d ELSE c[i]]
<1>4. hh \in [0 .. e -> Maps] /\ cc \in [1 .. e -> Int]
  BY <1>2, <1>3
<1>5. hh[e] = f /\ cc[e] = d /\ (\A i \in 0 .. m : hh[i] = h[i]) /\ \A i \in 1 .. m : cc[i] = c[i]
  BY <1>3
<1> HIDE DEF hh, cc
<1>6. hh[0] = [z \in Int |-> 0]
  BY <1>1, <1>3, <1>5 DEF Horner
<1>7. ASSUME NEW i \in 1 .. e PROVE hh[i] = [z \in Int |-> z * hh[i - 1][z] + cc[i]]
  <2>1. CASE i = e
    <3>1. hh[i - 1] = g /\ hh[i] = f /\ cc[i] = d
      BY <1>1, <1>3, <1>5, <2>1
    <3> QED
      BY <3>1, Zenon DEF f
  <2>2. CASE i \in 1 .. m
    <3>1. hh[i] = h[i] /\ hh[i - 1] = h[i - 1] /\ cc[i] = c[i]
      BY <1>3, <1>5, <2>2
    <3>2. h[i] = [z \in Int |-> z * h[i - 1][z] + c[i]]
      BY <1>1, <2>2 DEF Horner
    <3> QED
      BY <3>1, <3>2, Zenon
  <2> QED
    BY <1>3, <2>1, <2>2
<1>8. Horner(hh, cc, e)
  BY <1>6, <1>7 DEF Horner
<1>9. f \in Poly(e)
  BY <1>2, <1>4, <1>5, <1>8 DEF Poly
<1> QED
  BY <1>9 DEF e, f

LEMMA PolyShrinks ==
  ASSUME NEW m \in Nat, NEW f \in Poly(m + 1)
  PROVE  \E g \in Poly(m), d \in Int : f = [z \in Int |-> z * g[z] + d]
<1> DEFINE e == m + 1
<1>1. PICK h \in [0 .. e -> Maps], c \in [1 .. e -> Int] : Horner(h, c, e) /\ h[e] = f
  BY DEF Poly
<1>2. /\ e \in Nat /\ e - 1 = m /\ e \in 1 .. e
      /\ \A i \in 1 .. m : i \in 0 .. m /\ i - 1 \in 0 .. m /\ i \in 1 .. e
      /\ \A i \in 0 .. m : i \in 0 .. e
      /\ 0 \in 0 .. m /\ m \in 0 .. m
  BY SMT
<1> HIDE DEF e
<1> DEFINE hh == [i \in 0 .. m |-> h[i]]
           cc == [i \in 1 .. m |-> c[i]]
<1>3. hh \in [0 .. m -> Maps] /\ cc \in [1 .. m -> Int]
  BY <1>2
<1>4. (\A i \in 0 .. m : hh[i] = h[i]) /\ \A i \in 1 .. m : cc[i] = c[i]
  OBVIOUS
<1> HIDE DEF hh, cc
<1>5. hh[0] = [z \in Int |-> 0]
  BY <1>1, <1>2, <1>4 DEF Horner
<1>6. ASSUME NEW i \in 1 .. m PROVE hh[i] = [z \in Int |-> z * hh[i - 1][z] + cc[i]]
  <2>1. hh[i] = h[i] /\ hh[i - 1] = h[i - 1] /\ cc[i] = c[i]
    BY <1>2, <1>4
  <2>2. h[i] = [z \in Int |-> z * h[i - 1][z] + c[i]]
    BY <1>1, <1>2 DEF Horner
  <2> QED
    BY <2>1, <2>2, Zenon
<1>7. Horner(hh, cc, m)
  BY <1>5, <1>6 DEF Horner
<1>8. hh[m] \in Poly(m)
  BY <1>2, <1>3, <1>7 DEF Poly
<1>9. f = [z \in Int |-> z * hh[m][z] + c[e]]
  <2>1. f = [z \in Int |-> z * h[e - 1][z] + c[e]]
    BY <1>1, <1>2 DEF Horner
  <2>2. h[e - 1] = hh[m]
    BY <1>2, <1>4
  <2> QED
    BY <2>1, <2>2, Zenon
<1>10. c[e] \in Int
  BY <1>2
<1> QED
  BY <1>8, <1>9, <1>10, Zenon

LEMMA PolyMaps == ASSUME NEW m, NEW f \in Poly(m) PROVE f \in Maps /\ \A z \in Int : f[z] \in Int
  BY DEF Poly, Maps

(* Two of the same size are added, one is multiplied by a number.          *)
LEMMA PolySum ==
  ASSUME NEW m \in Nat
  PROVE  \A f, g \in Poly(m) : [z \in Int |-> f[z] + g[z]] \in Poly(m)
<1> DEFINE T == {i \in Nat : \A f, g \in Poly(i) : [z \in Int |-> f[z] + g[z]] \in Poly(i)}
<1>1. 0 \in T
  <2> SUFFICES ASSUME NEW f \in Poly(0), NEW g \in Poly(0)
               PROVE  [z \in Int |-> f[z] + g[z]] \in Poly(0)
    OBVIOUS
  <2>1. f = [z \in Int |-> 0] /\ g = [z \in Int |-> 0]
    BY PolyNone
  <2>2. [z \in Int |-> f[z] + g[z]] = [z \in Int |-> 0]
    <3>1. \A z \in Int : f[z] + g[z] = 0
      BY <2>1, SMT
    <3> QED
      BY <3>1
  <2> QED
    BY <2>2, PolyNone
<1>2. ASSUME NEW i \in T PROVE i + 1 \in T
  <2> SUFFICES ASSUME NEW f \in Poly(i + 1), NEW g \in Poly(i + 1)
               PROVE  [z \in Int |-> f[z] + g[z]] \in Poly(i + 1)
    <3>1. i + 1 \in Nat
      BY SMT
    <3> QED
      BY <3>1
  <2>1. PICK a \in Poly(i), d \in Int : f = [z \in Int |-> z * a[z] + d]
    BY PolyShrinks
  <2>2. PICK b \in Poly(i), e \in Int : g = [z \in Int |-> z * b[z] + e]
    BY PolyShrinks
  <2> DEFINE s == [z \in Int |-> a[z] + b[z]]
             t == [z \in Int |-> z * s[z] + (d + e)]
  <2>3. s \in Poly(i) /\ d + e \in Int
    BY <1>2
  <2>4. t \in Poly(i + 1)
    <3> HIDE DEF s
    <3> QED
      BY <2>3, PolyGrows
  <2>5. ASSUME NEW z \in Int PROVE f[z] + g[z] = t[z]
    <3>1. a[z] \in Int /\ b[z] \in Int
      BY PolyMaps
    <3>2. f[z] = z * a[z] + d /\ g[z] = z * b[z] + e /\ t[z] = z * (a[z] + b[z]) + (d + e)
      BY <2>1, <2>2
    <3> DEFINE x == a[z]
               y == b[z]
    <3> HIDE DEF x, y
    <3>3. x \in Int /\ y \in Int
      BY <3>1 DEF x, y
    <3>4. (z * x + d) + (z * y + e) = z * (x + y) + (d + e)
      BY <3>3, SMT
    <3> QED
      BY <3>2, <3>4, Zenon DEF x, y
  <2>6. [z \in Int |-> f[z] + g[z]] = t
    BY <2>5
  <2> HIDE DEF t
  <2> QED
    BY <2>4, <2>6
<1>3. m \in T
  <2>1. T \in SUBSET Nat
    OBVIOUS
  <2> HIDE DEF T
  <2> QED
    BY <1>1, <1>2, <2>1, BySteps
<1> QED
  BY <1>3

LEMMA PolyScale ==
  ASSUME NEW m \in Nat, NEW w \in Int
  PROVE  \A f \in Poly(m) : [z \in Int |-> w * f[z]] \in Poly(m)
<1> DEFINE T == {i \in Nat : \A f \in Poly(i) : [z \in Int |-> w * f[z]] \in Poly(i)}
<1>1. 0 \in T
  <2> SUFFICES ASSUME NEW f \in Poly(0) PROVE [z \in Int |-> w * f[z]] \in Poly(0)
    OBVIOUS
  <2>1. f = [z \in Int |-> 0]
    BY PolyNone
  <2>2. [z \in Int |-> w * f[z]] = [z \in Int |-> 0]
    <3>1. \A z \in Int : w * f[z] = 0
      BY <2>1, SMT
    <3> QED
      BY <3>1
  <2> QED
    BY <2>2, PolyNone
<1>2. ASSUME NEW i \in T PROVE i + 1 \in T
  <2> SUFFICES ASSUME NEW f \in Poly(i + 1) PROVE [z \in Int |-> w * f[z]] \in Poly(i + 1)
    <3>1. i + 1 \in Nat
      BY SMT
    <3> QED
      BY <3>1
  <2>1. PICK a \in Poly(i), d \in Int : f = [z \in Int |-> z * a[z] + d]
    BY PolyShrinks
  <2> DEFINE s == [z \in Int |-> w * a[z]]
             t == [z \in Int |-> z * s[z] + w * d]
  <2>3. s \in Poly(i) /\ w * d \in Int
    BY <1>2, SMT
  <2>4. t \in Poly(i + 1)
    <3> HIDE DEF s
    <3> QED
      BY <2>3, PolyGrows
  <2>5. ASSUME NEW z \in Int PROVE w * f[z] = t[z]
    <3>1. a[z] \in Int
      BY PolyMaps
    <3>2. f[z] = z * a[z] + d /\ t[z] = z * (w * a[z]) + w * d
      BY <2>1
    <3> DEFINE x == a[z]
    <3> HIDE DEF x
    <3>3. x \in Int
      BY <3>1 DEF x
    <3>4. w * (z * x + d) = z * (w * x) + w * d
      BY <3>3, SMT
    <3> QED
      BY <3>2, <3>4, Zenon DEF x
  <2>6. [z \in Int |-> w * f[z]] = t
    BY <2>5
  <2> HIDE DEF t
  <2> QED
    BY <2>4, <2>6
<1>3. m \in T
  <2>1. T \in SUBSET Nat
    OBVIOUS
  <2> HIDE DEF T
  <2> QED
    BY <1>1, <1>2, <2>1, BySteps
<1> QED
  BY <1>3

(* A coefficient may be zero.                                              *)
LEMMA PolyMore == ASSUME NEW m \in Nat PROVE Poly(m) \subseteq Poly(m + 1)
<1> DEFINE T == {i \in Nat : Poly(i) \subseteq Poly(i + 1)}
<1>1. 0 \in T
  <2> DEFINE zero == [z \in Int |-> 0]
             o == [z \in Int |-> z * zero[z] + 0]
  <2>1. zero \in Poly(0)
    BY PolyNone
  <2>2. o \in Poly(0 + 1)
    <3> HIDE DEF zero
    <3>1. 0 \in Nat /\ 0 \in Int
      BY SMT
    <3> QED
      BY <2>1, <3>1, PolyGrows
  <2>3. o = zero
    <3>1. \A z \in Int : z * zero[z] + 0 = 0
      BY SMT
    <3> QED
      BY <3>1
  <2> HIDE DEF o
  <2>4. \A f \in Poly(0) : f \in Poly(0 + 1)
    BY <2>2, <2>3, PolyNone
  <2> QED
    BY <2>4
<1>2. ASSUME NEW i \in T PROVE i + 1 \in T
  <2> SUFFICES ASSUME NEW f \in Poly(i + 1) PROVE f \in Poly((i + 1) + 1)
    <3>1. i + 1 \in Nat
      BY SMT
    <3> QED
      BY <3>1
  <2>1. PICK a \in Poly(i), d \in Int : f = [z \in Int |-> z * a[z] + d]
    BY PolyShrinks
  <2>2. a \in Poly(i + 1) /\ i + 1 \in Nat
    BY <1>2
  <2> QED
    BY <2>1, <2>2, PolyGrows
<1>3. m \in T
  <2>1. T \in SUBSET Nat
    OBVIOUS
  <2> HIDE DEF T
  <2> QED
    BY <1>1, <1>2, <2>1, BySteps
<1> QED
  BY <1>3

LEMMA PolyMost == ASSUME NEW m \in Nat, NEW j \in 0 .. m PROVE Poly(j) \subseteq Poly(m)
<1> DEFINE T == {i \in Nat : Poly(j) \subseteq Poly(j + i)}
<1>1. 0 \in T
  BY j + 0 = j
<1>2. ASSUME NEW i \in T PROVE i + 1 \in T
  <2>1. j + i \in Nat /\ i + 1 \in Nat /\ j + (i + 1) = (j + i) + 1
    BY SMT
  <2>2. Poly(j + i) \subseteq Poly((j + i) + 1)
    BY <2>1, PolyMore
  <2>3. Poly(j) \subseteq Poly(j + (i + 1))
    BY <1>2, <2>1, <2>2
  <2> QED
    BY <2>1, <2>3
<1>3. m - j \in T
  <2>1. T \in SUBSET Nat /\ m - j \in Nat
    BY SMT
  <2> HIDE DEF T
  <2> QED
    BY <1>1, <1>2, <2>1, BySteps
<1>4. j + (m - j) = m
  BY SMT
<1> QED
  BY <1>3, <1>4

(* A further linear factor makes a polynomial one coefficient longer.      *)
LEMMA PolyTimes ==
  ASSUME NEW m \in Nat, NEW f \in Poly(m), NEW a \in Int
  PROVE  [z \in Int |-> (z - a) * f[z]] \in Poly(m + 1)
<1> DEFINE p == [z \in Int |-> z * f[z] + 0]
           q == [z \in Int |-> (-a) * f[z]]
           s == [z \in Int |-> p[z] + q[z]]
<1>1. m + 1 \in Nat /\ -a \in Int /\ 0 \in Int
  BY SMT
<1>2. p \in Poly(m + 1)
  BY <1>1, PolyGrows
<1>3. q \in Poly(m + 1)
  BY <1>1, PolyScale, PolyMore
<1>4. s \in Poly(m + 1)
  <2> HIDE DEF p, q
  <2> QED
    BY <1>1, <1>2, <1>3, PolySum
<1>5. ASSUME NEW z \in Int PROVE (z - a) * f[z] = s[z]
  <2>1. f[z] \in Int
    BY PolyMaps
  <2>2. s[z] = (z * f[z] + 0) + (-a) * f[z]
    OBVIOUS
  <2> DEFINE x == f[z]
  <2> HIDE DEF x
  <2>3. x \in Int
    BY <2>1 DEF x
  <2>4. (z - a) * x = (z * x + 0) + (-a) * x
    BY <2>3, SMT
  <2> QED
    BY <2>2, <2>4, Zenon DEF x
<1>6. [z \in Int |-> (z - a) * f[z]] = s
  BY <1>5
<1> HIDE DEF s
<1> QED
  BY <1>4, <1>6

(* A linear factor is split off at every place.                            *)
Splits(f, g, a) == \A z \in Int : f[z] = f[a] + (z - a) * g[z]

LEMMA PolySplit ==
  ASSUME NEW m \in Nat, NEW a \in Int
  PROVE  \A f \in Poly(m + 1) : \E g \in Poly(m) : Splits(f, g, a)
<1> DEFINE T == {i \in Nat : \A f \in Poly(i + 1) : \E g \in Poly(i) : Splits(f, g, a)}
<1>1. 0 \in T
  <2> SUFFICES ASSUME NEW f \in Poly(0 + 1) PROVE \E g \in Poly(0) : Splits(f, g, a)
    OBVIOUS
  <2>1. PICK b \in Poly(0), d \in Int : f = [z \in Int |-> z * b[z] + d]
    BY PolyShrinks, 0 \in Nat
  <2>2. b = [z \in Int |-> 0]
    BY PolyNone
  <2>3. \A z \in Int : f[z] = d
    <3>1. \A z \in Int : z * 0 + d = d
      BY SMT
    <3> QED
      BY <2>1, <2>2, <3>1
  <2>4. ASSUME NEW z \in Int PROVE f[z] = f[a] + (z - a) * b[z]
    <3>1. b[z] = 0
      BY <2>2
    <3>2. d = d + (z - a) * 0
      BY SMT
    <3>3. f[z] = d /\ f[a] = d
      BY <2>3
    <3> QED
      BY <3>1, <3>2, <3>3, Zenon
  <2>5. Splits(f, b, a)
    BY <2>4 DEF Splits
  <2> QED
    BY <2>5
<1>2. ASSUME NEW i \in T PROVE i + 1 \in T
  <2> SUFFICES ASSUME NEW f \in Poly((i + 1) + 1) PROVE \E g \in Poly(i + 1) : Splits(f, g, a)
    <3>1. i + 1 \in Nat
      BY SMT
    <3> QED
      BY <3>1
  <2>1. PICK b \in Poly(i + 1), d \in Int : f = [z \in Int |-> z * b[z] + d]
    BY PolyShrinks, i + 1 \in Nat
  <2>2. PICK c \in Poly(i) : Splits(b, c, a)
    BY <1>2
  <2> DEFINE g == [z \in Int |-> z * c[z] + b[a]]
  <2>3. g \in Poly(i + 1)
    <3>1. b[a] \in Int
      BY PolyMaps
    <3> QED
      BY <1>2, <3>1, PolyGrows
  <2>4. ASSUME NEW z \in Int PROVE f[z] = f[a] + (z - a) * g[z]
    <3>1. c[z] \in Int /\ b[z] \in Int /\ b[a] \in Int
      BY PolyMaps
    <3>2. f[z] = z * b[z] + d /\ f[a] = a * b[a] + d /\ g[z] = z * c[z] + b[a]
      BY <2>1
    <3>3. b[z] = b[a] + (z - a) * c[z]
      BY <2>2 DEF Splits
    <3> DEFINE x == c[z]
               y == b[a]
    <3> HIDE DEF x, y
    <3>4. x \in Int /\ y \in Int
      BY <3>1 DEF x, y
    <3>5. z * (y + (z - a) * x) + d = (a * y + d) + (z - a) * (z * x + y)
      BY <3>4, SMT
    <3>6. f[z] = z * (y + (z - a) * x) + d /\ f[a] = a * y + d /\ g[z] = z * x + y
      BY <3>2, <3>3, Zenon DEF x, y
    <3> QED
      BY <3>5, <3>6, Zenon
  <2> HIDE DEF g
  <2>5. Splits(f, g, a)
    BY <2>4 DEF Splits
  <2> QED
    BY <2>3, <2>5
<1>3. m \in T
  <2>1. T \in SUBSET Nat
    OBVIOUS
  <2> HIDE DEF T
  <2> QED
    BY <1>1, <1>2, <2>1, BySteps
<1> QED
  BY <1>3

(* The same arguments have the same values.                                *)
LEMMA PolySame ==
  ASSUME NEW m \in Nat, NEW f \in Poly(m), NEW x \in Int, NEW y \in Int, Same(x, y)
  PROVE  Same(f[x], f[y])
<1>1. f \in Poly(m + 1)
  BY PolyMore
<1>2. PICK g \in Poly(m) : Splits(f, g, y)
  BY <1>1, PolySplit
<1>3. f[x] = f[y] + (x - y) * g[x]
  BY <1>2 DEF Splits
<1>4. f[x] \in Int /\ f[y] \in Int /\ g[x] \in Int
  BY PolyMaps
<1> DEFINE u == f[y]
           w == g[x]
<1> HIDE DEF u, w
<1>5. u \in Int /\ w \in Int
  BY <1>4 DEF u, w
<1>6. /\ x - y \in Int /\ -y \in Int /\ 0 \in Int /\ (x - y) * w \in Int /\ 0 * w = 0 /\ u + 0 = u
      /\ x + (-y) = x - y /\ y + (-y) = 0
  BY <1>5, SMT
<1>7. Same(-y, -y) /\ Same(u, u)
  BY <1>5, <1>6, SameSelf
<1>8. Same(x - y, 0)
  <2>1. Same(x + (-y), y + (-y))
    BY <1>6, <1>7, SameSum
  <2> QED
    BY <1>6, <2>1, Zenon
<1>9. Same((x - y) * w, 0)
  <2>1. Same((x - y) * w, 0 * w)
    BY <1>5, <1>6, <1>8, SameTimes
  <2> QED
    BY <1>6, <2>1, Zenon
<1>10. Same(u + (x - y) * w, u)
  <2>1. Same(u + (x - y) * w, u + 0)
    BY <1>5, <1>6, <1>7, <1>9, SameSum
  <2> QED
    BY <1>6, <2>1, Zenon
<1> QED
  BY <1>3, <1>10, Zenon DEF u, w

(* Where as many different places as there are coefficients give multiples *)
(* of the prime, all do.                                                   *)
Different(x, m) == \A i, j \in 1 .. m : i # j => ~ Same(x[i] - x[j], 0)
Vanishes(f, x, m) == \A i \in 1 .. m : Same(f[x[i]], 0)

LEMMA PolyRoots ==
  ASSUME NEW m \in Nat
  PROVE  \A f \in Poly(m) : \A x \in [1 .. m -> Int] :
           Different(x, m) /\ Vanishes(f, x, m) => \A z \in Int : Same(f[z], 0)
<1> DEFINE Rooted(i, f) == \A x \in [1 .. i -> Int] :
                             Different(x, i) /\ Vanishes(f, x, i) => \A z \in Int : Same(f[z], 0)
           T == {i \in Nat : \A f \in Poly(i) : Rooted(i, f)}
<1>1. 0 \in T
  <2>1. Same(0, 0)
    BY SameSelf, 0 \in Int
  <2>2. \A f \in Poly(0) : \A z \in Int : f[z] = 0
    BY PolyNone
  <2> QED
    BY <2>1, <2>2
<1>2. ASSUME NEW i \in T PROVE i + 1 \in T
  <2> DEFINE e == i + 1
  <2> SUFFICES ASSUME NEW f \in Poly(e), NEW x \in [1 .. e -> Int], Different(x, e), Vanishes(f, x, e),
                      NEW z \in Int
               PROVE  Same(f[z], 0)
    <3>1. e \in Nat
      BY SMT
    <3> QED
      BY <3>1
  <2>1. /\ e \in 1 .. e /\ \A j \in 1 .. i : j \in 1 .. e /\ j # e
        /\ 0 \in Int
    BY SMT
  <2> DEFINE a == x[e]
  <2>2. a \in Int
    BY <2>1
  <2>3. PICK g \in Poly(i) : Splits(f, g, a)
    BY <2>2, PolySplit
  <2> HIDE DEF e
  <2> DEFINE y == [j \in 1 .. i |-> x[j]]
  <2>4. y \in [1 .. i -> Int] /\ \A j \in 1 .. i : y[j] = x[j]
    BY <2>1
  <2> HIDE DEF y
  <2>5. Different(y, i)
    BY <2>1, <2>4 DEF Different
  <2>6. Same(f[a], 0)
    BY <2>1 DEF Vanishes
  <2>7. ASSUME NEW j \in 1 .. i PROVE Same(g[y[j]], 0)
    <3>1. ~ Same(x[j] - a, 0)
      BY <2>1 DEF Different
    <3>2. Same(f[x[j]], 0)
      BY <2>1 DEF Vanishes
    <3> DEFINE b == x[j]
               c == g[b]
               u == f[a]
    <3>3. b \in Int
      BY <2>1
    <3>4. c \in Int /\ u \in Int /\ f[b] \in Int
      BY <2>2, <3>3, PolyMaps, i \in Nat DEF e
    <3>5. f[b] = u + (b - a) * c
      BY <2>3, <3>3 DEF Splits
    <3>6. Same(f[b], 0)
      BY <3>2
    <3>7. ~ Same(b - a, 0) /\ y[j] = b /\ Same(u, 0)
      BY <2>4, <2>6, <3>1
    <3> DEFINE w == f[b]
    <3>8. w \in Int /\ w = u + (b - a) * c /\ Same(w, 0)
      BY <3>4, <3>5, <3>6
    <3> HIDE DEF a, b, c, u, w
    <3>9. /\ -u \in Int /\ w + (-u) = (b - a) * c /\ u * (-1) = -u /\ 0 * (-1) = 0 /\ 0 + 0 = 0
          /\ b - a \in Int /\ -1 \in Int
      BY <2>2, <3>3, <3>4, <3>8, SMT
    <3>10. Same(u * (-1), 0 * (-1))
      BY <2>1, <3>4, <3>7, <3>9, SameTimes
    <3>11. Same(-u, 0)
      BY <3>9, <3>10, Zenon
    <3>12. Same(w + (-u), 0 + 0)
      BY <2>1, <3>8, <3>9, <3>11, SameSum
    <3>13. Same((b - a) * c, 0)
      BY <3>9, <3>12, Zenon
    <3>14. Same(c, 0)
      BY <3>4, <3>7, <3>9, <3>13, Euclid
    <3> QED
      BY <3>7, <3>14, Zenon DEF c
  <2>8. Vanishes(g, y, i)
    BY <2>7 DEF Vanishes
  <2>9. Same(g[z], 0)
    BY <1>2, <2>4, <2>5, <2>8
  <2>10. f[z] = f[a] + (z - a) * g[z]
    BY <2>3 DEF Splits
  <2> DEFINE u == f[a]
             c == g[z]
  <2>11. u \in Int /\ c \in Int
    BY <2>2, PolyMaps, i \in Nat DEF e
  <2>12. Same(u, 0) /\ Same(c, 0) /\ f[z] = u + (z - a) * c
    BY <2>6, <2>9, <2>10
  <2> HIDE DEF u, c, a
  <2>13. z - a \in Int /\ (z - a) * 0 = 0 /\ 0 + 0 = 0 /\ (z - a) * c \in Int
    BY <2>2, <2>11, SMT
  <2>14. Same((z - a) * c, (z - a) * 0)
    BY <2>1, <2>11, <2>12, <2>13, SameTimes
  <2>15. Same((z - a) * c, 0)
    BY <2>13, <2>14, Zenon
  <2>16. Same(u + (z - a) * c, 0 + 0)
    BY <2>1, <2>11, <2>12, <2>13, <2>15, SameSum
  <2> QED
    BY <2>12, <2>13, <2>16, Zenon
<1>3. m \in T
  <2>1. T \in SUBSET Nat
    OBVIOUS
  <2> HIDE DEF T
  <2> QED
    BY <1>1, <1>2, <2>1, BySteps
<1> QED
  BY <1>3

LEMMA SmallIsNone ==
  ASSUME NEW d \in Int, d # 0, d < Prime, -Prime < d PROVE ~ Same(d, 0)
<1> SUFFICES ASSUME Same(d, 0) PROVE FALSE
  OBVIOUS
<1> DEFINE M == Prime
<1>1. M \in Nat \ {0} /\ d < M /\ -M < d
  BY PrimeAssumption, SMT
<1>2. PICK q \in Int : d = 0 + M * q
  BY DEF Same
<1> HIDE DEF M
<1>3. CASE q = 0
  BY <1>1, <1>2, <1>3, SMT
<1>4. CASE q >= 1
  <2>1. M * q >= M
    BY <1>1, <1>4, SMT
  <2> QED
    BY <1>1, <1>2, <2>1, SMT
<1>5. CASE q <= -1
  <2>1. M * q <= -M
    BY <1>1, <1>5, SMT
  <2> QED
    BY <1>1, <1>2, <2>1, SMT
<1> QED
  BY <1>3, <1>4, <1>5, SMT

-----------------------------------------------------------------------------
(* Fermat's little theorem.  The product of z - 1, ..., z - m, and that of *)
(* z - a, ..., z - a * m, differ by a polynomial with m coefficients, as   *)
(* they begin with the same power.  For m = Prime - 1 both vanish at all   *)
(* numbers but the multiples, so the difference vanishes everywhere, at 0  *)
(* too, where the second is the first times the m-th power of a.           *)
Powers(w, a, m) == w[0] = 1 /\ \A i \in 1 .. m : Same(w[i], w[i - 1] * a)

Factored(A, B, D, c, w, a, m) ==
  /\ \A z \in Int : A[z] = B[z] + D[z]
  /\ \A i \in 1 .. m : A[i] = 0 /\ B[a * i] = 0
  /\ A[0] = c /\ ~ Same(c, 0) /\ Same(B[0], w[m] * c)

LEMMA NoFactors ==
  ASSUME NEW a \in Int, NEW w, w[0] = 1
  PROVE  \E A, B \in Poly(0 + 1), D \in Poly(0), c \in Int : Factored(A, B, D, c, w, a, 0)
<1> DEFINE o == [z \in Int |-> 0]
           u == [z \in Int |-> z * o[z] + 1]
<1>1. o \in Poly(0)
  BY PolyNone
<1>2. u \in Poly(0 + 1)
  <2> HIDE DEF o
  <2>1. 0 \in Nat /\ 1 \in Int
    BY SMT
  <2> QED
    BY <1>1, <2>1, PolyGrows
<1>3. \A z \in Int : u[z] = 1 /\ o[z] = 0
  <2>1. \A z \in Int : z * 0 + 1 = 1
    BY SMT
  <2> QED
    BY <2>1
<1> HIDE DEF u, o
<1>4. 1 .. 0 = {} /\ 0 \in Int /\ 1 \in Int /\ 1 + 0 = 1 /\ 1 * 1 = 1
  BY SMT
<1>5. ~ Same(1, 0)
  <2>1. 1 < Prime /\ -Prime < 1
    BY PrimeAssumption, SMT
  <2> QED
    BY <1>4, <2>1, SmallIsNone
<1>6. \A z \in Int : u[z] = u[z] + o[z]
  BY <1>3, <1>4
<1>7. u[0] = 1
  BY <1>3, <1>4
<1>8. Same(u[0], w[0] * 1)
  <2>1. Same(1, 1)
    BY <1>4, SameSelf
  <2> QED
    BY <1>4, <1>7, <2>1, Zenon
<1>9. Factored(u, u, o, 1, w, a, 0)
  BY <1>4, <1>5, <1>6, <1>7, <1>8 DEF Factored
<1> QED
  BY <1>1, <1>2, <1>4, <1>9

LEMMA NextFactors ==
  ASSUME NEW m \in Nat, m + 1 < Prime, NEW a \in Int, NEW w \in [0 .. Prime - 1 -> Int],
         Powers(w, a, Prime - 1),
         NEW A \in Poly(m + 1), NEW B \in Poly(m + 1), NEW D \in Poly(m), NEW c \in Int,
         Factored(A, B, D, c, w, a, m)
  PROVE  \E AA, BB \in Poly((m + 1) + 1), DD \in Poly(m + 1), cc \in Int :
           Factored(AA, BB, DD, cc, w, a, m + 1)
<1> DEFINE r == m + 1
           s == a * r
           AA == [z \in Int |-> (z - r) * A[z]]
           BB == [z \in Int |-> (z - s) * B[z]]
           d1 == [z \in Int |-> z * D[z] + 0]
           d2 == [z \in Int |-> (-r) * A[z]]
           d3 == [z \in Int |-> s * B[z]]
           d4 == [z \in Int |-> d1[z] + d2[z]]
           DD == [z \in Int |-> d4[z] + d3[z]]
           cc == (0 - r) * c
<1>1. r \in Nat /\ r \in Int /\ s \in Int /\ -r \in Int /\ 0 \in Int /\ cc \in Int
  BY SMT
<1>2. AA \in Poly(r + 1) /\ BB \in Poly(r + 1)
  <2> HIDE DEF s
  <2> QED
    BY <1>1, PolyTimes
<1>3. d1 \in Poly(r) /\ d2 \in Poly(r) /\ d3 \in Poly(r)
  <2>1. d1 \in Poly(r)
    BY <1>1, PolyGrows
  <2>2. d2 \in Poly(r)
    BY <1>1, PolyScale
  <2>3. d3 \in Poly(r)
    <3> HIDE DEF s
    <3> QED
      BY <1>1, PolyScale
  <2> QED
    BY <2>1, <2>2, <2>3
<1>4. DD \in Poly(r)
  <2>1. d4 \in Poly(r)
    <3> HIDE DEF d1, d2
    <3> QED
      BY <1>1, <1>3, PolySum
  <2> HIDE DEF d3, d4
  <2> QED
    BY <1>1, <1>3, <2>1, PolySum
<1>5. ASSUME NEW z \in Int PROVE AA[z] = BB[z] + DD[z]
  <2> DEFINE x == B[z]
             y == D[z]
             t == A[z]
  <2>1. AA[z] = (z - r) * t /\ BB[z] = (z - s) * x /\ DD[z] = ((z * y + 0) + (-r) * t) + s * x
    OBVIOUS
  <2>2. x \in Int /\ y \in Int
    BY PolyMaps, m \in Nat
  <2>3. t = x + y
    BY DEF Factored
  <2> HIDE DEF x, y, t, r, s
  <2>4. (z - r) * (x + y) = (z - s) * x + (((z * y + 0) + (-r) * (x + y)) + s * x)
    BY <1>1, <2>2, SMT
  <2> HIDE DEF AA, BB, DD
  <2> QED
    BY <2>1, <2>3, <2>4, Zenon
<1>6. ASSUME NEW i \in 1 .. r PROVE AA[i] = 0 /\ BB[a * i] = 0
  <2>1. i \in Int /\ a * i \in Int /\ (i = r \/ i \in 1 .. m)
    BY SMT
  <2>2. AA[i] = (i - r) * A[i] /\ BB[a * i] = (a * i - s) * B[a * i]
    BY <2>1
  <2>3. A[i] \in Int /\ B[a * i] \in Int
    BY <2>1, PolyMaps
  <2>4. CASE i = r
    <3> DEFINE x == A[i]
               y == B[a * i]
    <3>1. x \in Int /\ y \in Int /\ i - r = 0 /\ a * i - s = 0
      BY <1>1, <2>3, <2>4
    <3> HIDE DEF x, y
    <3>2. 0 * x = 0 /\ 0 * y = 0
      BY <3>1, SMT
    <3> QED
      BY <2>2, <3>1, <3>2, Zenon DEF x, y
  <2>5. CASE i \in 1 .. m
    <3>1. A[i] = 0 /\ B[a * i] = 0
      BY <2>5 DEF Factored
    <3> DEFINE x == i - r
               y == a * i - s
    <3>2. x \in Int /\ y \in Int
      BY <1>1, <2>1
    <3> HIDE DEF x, y
    <3>3. x * 0 = 0 /\ y * 0 = 0
      BY <3>2, SMT
    <3> QED
      BY <2>2, <3>1, <3>3, Zenon DEF x, y
  <2> QED
    BY <2>1, <2>4, <2>5
<1>7. AA[0] = cc
  BY <1>1 DEF Factored
<1>8. ~ Same(cc, 0)
  <2>1. 0 - r \in Int /\ 0 - r # 0 /\ 0 - r < Prime /\ -Prime < 0 - r
    BY PrimeAssumption, SMT
  <2>2. ~ Same(0 - r, 0)
    BY <2>1, SmallIsNone
  <2>3. ~ Same(c, 0)
    BY DEF Factored
  <2> HIDE DEF r
  <2> QED
    BY <2>1, <2>2, <2>3, Euclid
<1>9. Same(BB[0], w[r] * cc)
  <2> DEFINE b == B[0]
             v == w[m]
             t == w[r]
  <2>1. BB[0] = (0 - s) * b
    BY <1>1
  <2>2. m \in 0 .. Prime - 1 /\ r \in 0 .. Prime - 1 /\ r \in 1 .. Prime - 1 /\ r - 1 = m
    BY PrimeAssumption, SMT
  <2>3. b \in Int /\ v \in Int /\ t \in Int
    BY <1>1, <2>2, PolyMaps
  <2>4. Same(b, v * c)
    BY DEF Factored
  <2>5. Same(t, v * a)
    BY <2>2 DEF Powers
  <2> HIDE DEF b, v, t, r, AA, BB
  <2>6. /\ v * c \in Int /\ 0 - s \in Int /\ v * a \in Int
        /\ (0 - s) * b \in Int /\ (0 - s) * (v * c) \in Int /\ (v * a) * cc \in Int /\ t * cc \in Int
        /\ (0 - s) * (v * c) = (v * a) * cc
    BY <1>1, <2>3, SMT
  <2>7. Same((0 - s) * b, (0 - s) * (v * c))
    <3> HIDE DEF s
    <3> QED
      BY <2>3, <2>4, <2>6, SameTimes
  <2>8. Same(t * cc, (v * a) * cc)
    <3> HIDE DEF cc
    <3> QED
      BY <1>1, <2>3, <2>5, <2>6, SameTimes
  <2> HIDE DEF cc, s
  <2>9. Same((v * a) * cc, t * cc)
    BY <2>6, <2>8, SameBack
  <2>10. Same((0 - s) * b, (v * a) * cc)
    BY <2>6, <2>7, Zenon
  <2>11. Same((0 - s) * b, t * cc)
    BY <2>6, <2>9, <2>10, SameOn
  <2> QED
    BY <2>1, <2>11, Zenon DEF t
<1> HIDE DEF AA, BB, DD, cc
<1>10. Factored(AA, BB, DD, cc, w, a, r)
  BY <1>5, <1>6, <1>7, <1>8, <1>9 DEF Factored
<1> HIDE DEF r
<1>11. \E C \in Poly(r + 1) : \E E \in Poly(r + 1) : \E F \in Poly(r) : \E d \in Int :
         Factored(C, E, F, d, w, a, r)
  BY <1>1, <1>2, <1>4, <1>10
<1> QED
  BY <1>11 DEF r

LEMMA AllFactors ==
  ASSUME NEW a \in Int, NEW w \in [0 .. Prime - 1 -> Int], Powers(w, a, Prime - 1)
  PROVE  \A m \in 0 .. Prime - 1 :
           \E A, B \in Poly(m + 1), D \in Poly(m), c \in Int : Factored(A, B, D, c, w, a, m)
<1> DEFINE Good(m) == \E A, B \in Poly(m + 1), D \in Poly(m), c \in Int : Factored(A, B, D, c, w, a, m)
           T == {m \in Nat : m < Prime => Good(m)}
<1>1. 0 \in T
  <2>1. Good(0)
    BY NoFactors DEF Powers
  <2> HIDE DEF Good
  <2> QED
    BY <2>1
<1>2. ASSUME NEW m \in T PROVE m + 1 \in T
  <2>1. m + 1 \in Nat /\ (m + 1 < Prime => m < Prime)
    BY PrimeAssumption, SMT
  <2>2. ASSUME m + 1 < Prime PROVE Good(m + 1)
    <3>1. Good(m)
      <4> HIDE DEF Good
      <4> QED
        BY <2>1, <2>2
    <3>2. PICK A \in Poly(m + 1), B \in Poly(m + 1), D \in Poly(m), c \in Int :
            Factored(A, B, D, c, w, a, m)
      BY <3>1
    <3> QED
      BY <2>2, <3>2, NextFactors
  <2> HIDE DEF Good
  <2> QED
    BY <2>1, <2>2
<1>3. \A m \in Nat : m \in T
  <2>1. T \in SUBSET Nat
    OBVIOUS
  <2> HIDE DEF T
  <2> QED
    BY <1>1, <1>2, <2>1, BySteps
<1> HIDE DEF Good
<1>4. \A m \in 0 .. Prime - 1 : m \in Nat /\ m < Prime
  BY PrimeAssumption, SMT
<1>5. \A m \in 0 .. Prime - 1 : Good(m)
  BY <1>3, <1>4
<1> QED
  BY <1>5 DEF Good

LEMMA Fermat ==
  ASSUME NEW a \in Int, ~ Same(a, 0), NEW w \in [0 .. Prime - 1 -> Int], Powers(w, a, Prime - 1)
  PROVE  Same(w[Prime - 1], 1)
<1> DEFINE m == Prime - 1
<1>1. m \in 0 .. Prime - 1 /\ m \in Nat /\ 0 \in Int /\ 1 \in Int /\ m + 1 = Prime
  BY PrimeAssumption, SMT
<1>2. PICK A \in Poly(m + 1), B \in Poly(m + 1), D \in Poly(m), c \in Int :
        Factored(A, B, D, c, w, a, m)
  BY <1>1, AllFactors
<1>3. m + 1 \in Nat
  BY <1>1, SMT
<1>4. PICK u \in Int : Same(a * u, 1)
  BY InverseExists
<1>5. ASSUME NEW j \in 1 .. m PROVE Same(D[j], 0)
  <2> DEFINE v == u * j
             i == v % Prime
             s == a * i
  <2>1. j \in Int /\ j # 0 /\ j < Prime /\ -Prime < j
    BY <1>1, PrimeAssumption, SMT
  <2>2. v \in Int /\ a * v \in Int /\ (a * u) * j \in Int /\ a * v = (a * u) * j /\ 1 * j = j /\ a * u \in Int
    BY <2>1, SMT
  <2>3. Same(a * v, j)
    <3>1. Same((a * u) * j, 1 * j)
      BY <1>1, <1>4, <2>1, <2>2, SameTimes
    <3> QED
      BY <2>2, <3>1, Zenon
  <2>4. Same(i, v) /\ i \in 0 .. Prime - 1
    <3> HIDE DEF v
    <3> QED
      BY <2>2, SameRemainder
  <2> HIDE DEF i, v
  <2>5. i \in Int /\ s \in Int
    BY <2>4, PrimeAssumption, SMT
  <2>6. Same(s, a * v)
    BY <2>2, <2>4, <2>5, SameTimes
  <2>7. Same(s, j)
    <3> HIDE DEF s
    <3> QED
      BY <2>1, <2>2, <2>3, <2>5, <2>6, SameOn
  <2>8. i # 0
    <3> SUFFICES ASSUME i = 0 PROVE FALSE
      OBVIOUS
    <3>1. s = 0
      BY <2>5, SMT
    <3>2. Same(j, 0)
      BY <1>1, <2>1, <2>7, <3>1, SameBack
    <3> QED
      BY <2>1, <3>2, SmallIsNone
  <2>9. i \in 1 .. m
    BY <1>1, <2>4, <2>8, SMT
  <2>10. B[s] = 0 /\ A[j] = 0 /\ A[j] = B[j] + D[j]
    BY <1>2, <2>1, <2>9 DEF Factored
  <2>11. Same(j, s)
    <3> HIDE DEF s
    <3> QED
      BY <2>1, <2>5, <2>7, SameBack
  <2>12. Same(B[j], B[s])
    <3> HIDE DEF s
    <3> QED
      BY <1>3, <2>1, <2>5, <2>11, PolySame
  <2> DEFINE x == B[j]
             y == D[j]
  <2>13. x \in Int /\ y \in Int
    BY <1>1, <1>3, <2>1, PolyMaps
  <2>14. Same(x, 0) /\ 0 = x + y
    BY <2>10, <2>12
  <2> HIDE DEF x, y, m, s
  <2>15. x * (-1) = y /\ 0 * (-1) = 0 /\ -1 \in Int
    BY <2>13, <2>14, SMT
  <2>16. Same(x * (-1), 0 * (-1))
    BY <1>1, <2>13, <2>14, <2>15, SameTimes
  <2>17. Same(y, 0)
    BY <2>15, <2>16, Zenon
  <2> QED
    BY <2>17 DEF y
<1> DEFINE x == [j \in 1 .. m |-> j]
<1>6. x \in [1 .. m -> Int] /\ \A j \in 1 .. m : x[j] = j
  BY SMT
<1>7. Different(x, m)
  <2> SUFFICES ASSUME NEW i \in 1 .. m, NEW j \in 1 .. m, i # j PROVE ~ Same(x[i] - x[j], 0)
    BY DEF Different
  <2>1. i - j \in Int /\ i - j # 0 /\ i - j < Prime /\ -Prime < i - j
    BY <1>1, PrimeAssumption, SMT
  <2>2. ~ Same(i - j, 0)
    BY <2>1, SmallIsNone
  <2> QED
    BY <1>6, <2>2
<1>8. Vanishes(D, x, m)
  BY <1>5, <1>6 DEF Vanishes
<1>9. Same(D[0], 0)
  <2> HIDE DEF x, m
  <2> QED
    BY <1>1, <1>6, <1>7, <1>8, PolyRoots
<1> DEFINE b == B[0]
           d == D[0]
           t == w[m]
<1>10. b \in Int /\ d \in Int /\ t \in Int
  BY <1>1, <1>3, PolyMaps
<1>11. c = b + d /\ Same(b, t * c) /\ Same(d, 0) /\ ~ Same(c, 0)
  BY <1>1, <1>2, <1>9 DEF Factored
<1> HIDE DEF b, d, t, m, x
<1>12. /\ t * c \in Int /\ t * c + 0 = t * c /\ -c \in Int /\ t * c + (-c) = c * (t - 1) /\ t - 1 \in Int
       /\ c + (-c) = 0 /\ b + d \in Int /\ t * c + 0 \in Int /\ c * (t - 1) \in Int
  BY <1>10, SMT
<1>13. Same(b + d, t * c + 0)
  BY <1>1, <1>10, <1>11, <1>12, SameSum
<1>14. Same(c, t * c)
  BY <1>11, <1>12, <1>13, Zenon
<1>15. Same(t * c, c)
  BY <1>12, <1>14, SameBack
<1>16. Same(t * c + (-c), c + (-c))
  BY <1>12, <1>15, SameSelf, SameSum
<1>17. Same(c * (t - 1), 0)
  BY <1>12, <1>16, Zenon
<1>18. Same(t - 1, 0)
  BY <1>11, <1>12, <1>17, Euclid
<1>19. (t - 1) + 1 = t /\ 0 + 1 = 1
  BY <1>10, SMT
<1>20. Same((t - 1) + 1, 0 + 1)
  BY <1>1, <1>12, <1>18, SameSelf, SameSum
<1>21. Same(t, 1)
  BY <1>19, <1>20, Zenon
<1> QED
  BY <1>21, Zenon DEF t, m

-----------------------------------------------------------------------------
(* The loops of split and recover: all multiply, add and reduce, and may   *)
(* leave out one round.                                                    *)
Looped(h, len, base, u, v, skip) ==
  /\ h[0] = base
  /\ \A i \in 1 .. len : h[i] = IF i = skip THEN h[i - 1] ELSE (h[i - 1] * u[i] + v[i]) % Prime

LEMMA LoopExists ==
  ASSUME NEW len \in Nat, NEW base \in Int, NEW u \in [0 .. len -> Int], NEW v \in [0 .. len -> Int],
         NEW skip
  PROVE  \E h \in [0 .. len -> Int] : Looped(h, len, base, u, v, skip)
<1> DEFINE step == [i \in 0 .. len |-> [x \in Int |->
                      IF i = skip THEN x ELSE (x * u[i] + v[i]) % Prime]]
<1>1. \A x \in Int : x % Prime \in Int
  <2>1. 0 .. Prime - 1 \subseteq Int
    BY SMT
  <2> QED
    BY <2>1, SameRemainder
<1>2. step \in [0 .. len -> [Int -> Int]]
  <2>1. ASSUME NEW i \in 0 .. len, NEW x \in Int
        PROVE  (IF i = skip THEN x ELSE (x * u[i] + v[i]) % Prime) \in Int
    <3>1. u[i] \in Int /\ v[i] \in Int
      OBVIOUS
    <3>2. x * u[i] + v[i] \in Int
      BY <3>1, SMT
    <3> QED
      BY <1>1, <3>2
  <2> QED
    BY <2>1
<1>3. \A i \in 0 .. len : \A x \in Int :
        step[i][x] = IF i = skip THEN x ELSE (x * u[i] + v[i]) % Prime
  OBVIOUS
<1> HIDE DEF step
<1>4. PICK h \in [0 .. len -> Int] : Recursion(h, len, base, step)
  BY <1>2, ByRecursion
<1>5. \A i \in 0 .. len : h[i] = IF i = 0 THEN base ELSE step[i][h[i - 1]]
  <2>1. h = [i \in 0 .. len |-> IF i = 0 THEN base ELSE step[i][h[i - 1]]]
    BY <1>4 DEF Recursion
  <2> QED
    BY <2>1, Zenon
<1>6. 0 \in 0 .. len /\ \A i \in 1 .. len : i \in 0 .. len /\ i # 0 /\ i - 1 \in 0 .. len
  BY SMT
<1>7. h[0] = base
  BY <1>5, <1>6
<1>8. ASSUME NEW i \in 1 .. len
      PROVE  h[i] = IF i = skip THEN h[i - 1] ELSE (h[i - 1] * u[i] + v[i]) % Prime
  <2>1. h[i - 1] \in Int
    BY <1>6
  <2>2. h[i] = step[i][h[i - 1]]
    BY <1>5, <1>6
  <2> QED
    BY <1>3, <1>6, <2>1, <2>2, Zenon
<1> QED
  BY <1>7, <1>8 DEF Looped

(* Values that stay numbers from one to the next.                          *)
LEMMA StaysNumber ==
  ASSUME NEW len \in Nat, NEW f, f[0] \in Int, \A i \in 1 .. len : f[i - 1] \in Int => f[i] \in Int
  PROVE  \A i \in 0 .. len : f[i] \in Int
<1> DEFINE T == {i \in Nat : i <= len => f[i] \in Int}
<1>1. 0 \in T
  OBVIOUS
<1>2. ASSUME NEW i \in T PROVE i + 1 \in T
  <2>1. /\ i + 1 \in Nat /\ (i + 1) - 1 = i
        /\ i + 1 <= len => i <= len /\ i + 1 \in 1 .. len
    BY SMT
  <2>2. ASSUME i + 1 <= len PROVE f[i + 1] \in Int
    <3>1. f[(i + 1) - 1] \in Int
      BY <2>1, <2>2
    <3> QED
      BY <2>1, <2>2, <3>1
  <2> QED
    BY <2>1, <2>2
<1>3. \A i \in Nat : i \in T
  <2>1. T \in SUBSET Nat
    OBVIOUS
  <2> HIDE DEF T
  <2> QED
    BY <1>1, <1>2, <2>1, BySteps
<1>4. \A i \in 0 .. len : i \in Nat /\ i <= len
  BY SMT
<1> QED
  BY <1>3, <1>4

LEMMA PowerLoop ==
  ASSUME NEW b \in Int, NEW e \in Nat
  PROVE  \E p \in [0 .. e -> Int] :
           p[0] = 1 /\ (\A i \in 1 .. e : p[i] = (p[i - 1] * b) % Prime) /\ Power(b, e) = p[e]
<1> DEFINE Body(h) == h = [i \in 0 .. e |-> IF i = 0 THEN 1 ELSE (h[i - 1] * b) % Prime]
           u == [i \in 0 .. e |-> b]
           v == [i \in 0 .. e |-> 0]
<1>1. PICK h \in [0 .. e -> Int] : Looped(h, e, 1, u, v, 0)
  <2>1. u \in [0 .. e -> Int] /\ v \in [0 .. e -> Int] /\ 1 \in Int
    BY SMT
  <2> HIDE DEF u, v
  <2> QED
    BY <2>1, LoopExists
<1>2. 0 \in 0 .. e /\ e \in 0 .. e
      /\ \A i \in 0 .. e : i # 0 => i \in 1 .. e /\ i - 1 \in 0 .. e
  BY SMT
<1>3. Body(h)
  <2>1. ASSUME NEW i \in 0 .. e PROVE h[i] = IF i = 0 THEN 1 ELSE (h[i - 1] * b) % Prime
    <3>1. CASE i = 0
      BY <1>1, <3>1 DEF Looped
    <3>2. CASE i # 0
      <4>1. h[i - 1] \in Int
        BY <1>2, <3>2
      <4>2. h[i - 1] * b + 0 = h[i - 1] * b
        BY <4>1, SMT
      <4>3. u[i] = b /\ v[i] = 0
        OBVIOUS
      <4>4. h[i] = (h[i - 1] * u[i] + v[i]) % Prime
        BY <1>1, <1>2, <3>2, Zenon DEF Looped
      <4> QED
        BY <3>2, <4>2, <4>3, <4>4, Zenon
    <3> QED
      BY <3>1, <3>2
  <2>2. h = [i \in 0 .. e |-> h[i]]
    OBVIOUS
  <2> QED
    BY <2>1, <2>2
<1>4. PICK p : Body(p) /\ Power(b, e) = p[e]
  <2>1. Power(b, e) = (CHOOSE g : Body(g))[e]
    BY DEF Power
  <2> QED
    BY <1>3, <2>1
<1>5. \A i \in 0 .. e : p[i] = IF i = 0 THEN 1 ELSE (p[i - 1] * b) % Prime
  BY <1>4, Zenon
<1>6. p[0] = 1 /\ \A i \in 1 .. e : p[i] = (p[i - 1] * b) % Prime
  <2>1. \A i \in 1 .. e : i \in 0 .. e /\ i # 0
    BY SMT
  <2> QED
    BY <1>2, <1>5, <2>1, Zenon
<1>7. \A i \in 0 .. e : p[i] \in Int
  <2>1. ASSUME NEW i \in 1 .. e, p[i - 1] \in Int PROVE p[i] \in Int
    <3>1. p[i - 1] * b \in Int /\ 0 .. Prime - 1 \subseteq Int
      BY <2>1, SMT
    <3>2. (p[i - 1] * b) % Prime \in Int
      BY <3>1, SameRemainder
    <3> QED
      BY <1>6, <3>2
  <2>2. p[0] \in Int
    BY <1>6
  <2> QED
    BY <2>1, <2>2, StaysNumber
<1>8. p \in [0 .. e -> Int]
  <2>1. p = [i \in 0 .. e |-> p[i]]
    BY <1>4, <1>5, Zenon
  <2> QED
    BY <1>7, <2>1
<1> QED
  BY <1>4, <1>6, <1>8

(* So recover divides by multiplying with a power.                         *)
LEMMA PowerInverts ==
  ASSUME NEW a \in Int, ~ Same(a, 0)
  PROVE  Power(a, Prime - 2) \in Int /\ Same(Power(a, Prime - 2) * a, 1)
<1> DEFINE e == Prime - 2
           M == Prime - 1
<1>1. /\ e \in Nat /\ M \in Nat /\ M = e + 1 /\ e \in 0 .. e /\ M \in 0 .. M /\ M # 0
      /\ \A i \in 0 .. M : i = M \/ i \in 0 .. e
      /\ \A i \in 0 .. e : i # M /\ i \in 0 .. M
      /\ \A i \in 1 .. M : i - 1 \in 0 .. e /\ (i = M => i - 1 = e) /\ (i # M => i \in 1 .. e)
      /\ 0 \in 0 .. e
      /\ \A i \in 1 .. e : i \in 0 .. e /\ i - 1 \in 0 .. e
  BY PrimeAssumption, SMT
<1>2. PICK p \in [0 .. e -> Int] :
        p[0] = 1 /\ (\A i \in 1 .. e : p[i] = (p[i - 1] * a) % Prime) /\ Power(a, e) = p[e]
  BY <1>1, PowerLoop
<1> DEFINE w == [i \in 0 .. M |-> IF i = M THEN p[e] * a ELSE p[i]]
<1>3. \A x \in 0 .. e : p[x] \in Int /\ p[x] * a \in Int
  <2>1. \A x \in 0 .. e : p[x] \in Int
    OBVIOUS
  <2> QED
    BY <2>1, SMT
<1>4. w \in [0 .. M -> Int] /\ w[M] = p[e] * a /\ \A i \in 0 .. e : w[i] = p[i]
  <2> HIDE DEF e, M
  <2> QED
    BY <1>1, <1>3
<1> HIDE DEF w
<1>5. Powers(w, a, M)
  <2>1. w[0] = 1
    <3> HIDE DEF e, M
    <3> QED
      BY <1>1, <1>2, <1>4
  <2>2. ASSUME NEW i \in 1 .. M PROVE Same(w[i], w[i - 1] * a)
    <3> HIDE DEF e, M
    <3>1. w[i - 1] = p[i - 1]
      BY <1>1, <1>4
    <3>2. CASE i = M
      <4>1. w[i] = w[i - 1] * a /\ w[i - 1] * a \in Int
        BY <1>1, <1>3, <1>4, <3>1, <3>2
      <4> QED
        BY <4>1, SameSelf
    <3>3. CASE i # M
      <4>1. i \in 1 .. e /\ w[i] = p[i]
        BY <1>1, <1>4, <3>3
      <4>2. p[i] = (p[i - 1] * a) % Prime
        BY <1>2, <4>1
      <4>3. p[i - 1] * a \in Int
        BY <1>1, <1>3, <4>1
      <4> DEFINE x == p[i - 1] * a
      <4>4. x \in Int
        BY <4>3
      <4> HIDE DEF x
      <4>5. Same(x % Prime, x)
        BY <4>4, SameRemainder
      <4> QED
        BY <3>1, <4>1, <4>2, <4>5, Zenon DEF x
    <3> QED
      BY <3>2, <3>3
  <2> QED
    BY <2>1, <2>2 DEF Powers
<1>6. Same(w[M], 1)
  BY <1>4, <1>5, Fermat
<1>7. Power(a, e) \in Int /\ Same(Power(a, e) * a, 1)
  <2> HIDE DEF e, M
  <2> QED
    BY <1>1, <1>2, <1>3, <1>4, <1>6
<1> QED
  BY <1>7

Points == Int \X Int

LEMMA EvalLoop ==
  ASSUME NEW s \in Seq(Int), NEW x \in Int
  PROVE  \E r \in [0 .. Len(s) -> Int] :
           /\ r[0] = 0
           /\ \A i \in 1 .. Len(s) : r[i] = (r[i - 1] * x + s[Len(s) + 1 - i]) % Prime
           /\ EvalPoly(s, x) = r[Len(s)]
<1> DEFINE e == Len(s)
           Body(h) == h = [i \in 0 .. e |->
                             IF i = 0 THEN 0 ELSE (h[i - 1] * x + s[e + 1 - i]) % Prime]
           u == [i \in 0 .. e |-> x]
           v == [i \in 0 .. e |-> IF i = 0 THEN 0 ELSE s[e + 1 - i]]
<1>1. e \in Nat /\ \A i \in 1 .. e : s[e + 1 - i] \in Int
  <2>1. e \in Nat /\ \A i \in 1 .. e : e + 1 - i \in 1 .. e
    BY LenProperties, SMT
  <2> QED
    BY <2>1, ElementOfSeq
<1> HIDE DEF e
<1>2. 0 \in 0 .. e /\ e \in 0 .. e
      /\ (\A i \in 0 .. e : i # 0 => i \in 1 .. e /\ i - 1 \in 0 .. e)
      /\ \A i \in 1 .. e : i \in 0 .. e /\ i # 0
  BY <1>1, SMT
<1>3. PICK h \in [0 .. e -> Int] : Looped(h, e, 0, u, v, 0)
  <2>1. u \in [0 .. e -> Int] /\ v \in [0 .. e -> Int] /\ 0 \in Int
    BY <1>1, <1>2
  <2> HIDE DEF u, v
  <2> QED
    BY <1>1, <2>1, LoopExists
<1>4. Body(h)
  <2>1. ASSUME NEW i \in 0 .. e PROVE h[i] = IF i = 0 THEN 0 ELSE (h[i - 1] * x + s[e + 1 - i]) % Prime
    <3>1. CASE i = 0
      BY <1>3, <3>1 DEF Looped
    <3>2. CASE i # 0
      <4>1. u[i] = x /\ v[i] = s[e + 1 - i]
        BY <3>2
      <4>2. h[i] = (h[i - 1] * u[i] + v[i]) % Prime
        BY <1>2, <1>3, <3>2, Zenon DEF Looped
      <4> QED
        BY <3>2, <4>1, <4>2, Zenon
    <3> QED
      BY <3>1, <3>2
  <2>2. h = [i \in 0 .. e |-> h[i]]
    OBVIOUS
  <2> QED
    BY <2>1, <2>2
<1>5. PICK r : Body(r) /\ EvalPoly(s, x) = r[e]
  <2>1. EvalPoly(s, x) = (CHOOSE g : Body(g))[e]
    BY DEF EvalPoly, e
  <2> QED
    BY <1>4, <2>1
<1>6. \A i \in 0 .. e : r[i] = IF i = 0 THEN 0 ELSE (r[i - 1] * x + s[e + 1 - i]) % Prime
  BY <1>5, Zenon
<1>7. r[0] = 0 /\ \A i \in 1 .. e : r[i] = (r[i - 1] * x + s[e + 1 - i]) % Prime
  BY <1>2, <1>6, Zenon
<1>8. \A i \in 0 .. e : r[i] \in Int
  <2>1. ASSUME NEW i \in 1 .. e, r[i - 1] \in Int PROVE r[i] \in Int
    <3>1. r[i - 1] * x + s[e + 1 - i] \in Int /\ 0 .. Prime - 1 \subseteq Int
      BY <1>1, <2>1, SMT
    <3>2. (r[i - 1] * x + s[e + 1 - i]) % Prime \in Int
      BY <3>1, SameRemainder
    <3> QED
      BY <1>7, <3>2
  <2>2. r[0] \in Int
    BY <1>7
  <2> QED
    BY <1>1, <2>1, <2>2, StaysNumber
<1>9. r \in [0 .. e -> Int]
  <2>1. r = [i \in 0 .. e |-> r[i]]
    BY <1>5, <1>6, Zenon
  <2> QED
    BY <1>8, <2>1
<1> QED
  BY <1>5, <1>7, <1>9 DEF e

LEMMA NumeratorLoop ==
  ASSUME NEW s \in Seq(Points), NEW q \in 1 .. Len(s)
  PROVE  \E r \in [0 .. Len(s) -> Int] :
           /\ r[0] = 1
           /\ \A j \in 1 .. Len(s) :
                r[j] = IF j = q THEN r[j - 1] ELSE (r[j - 1] * (-s[j][1])) % Prime
           /\ Numerator(s, q) = r[Len(s)]
<1> DEFINE e == Len(s)
           Body(h) == h = [j \in 0 .. e |->
                             IF j = 0 THEN 1
                             ELSE IF j = q THEN h[j - 1] ELSE (h[j - 1] * (-s[j][1])) % Prime]
           u == [j \in 0 .. e |-> IF j = 0 THEN 0 ELSE (-s[j][1])]
           v == [j \in 0 .. e |-> 0]
<1>1. e \in Nat /\ \A j \in 1 .. e : (-s[j][1]) \in Int
  <2>1. e \in Nat
    BY LenProperties
  <2>2. \A j \in 1 .. e : s[j] \in Points
    BY ElementOfSeq
  <2>3. \A j \in 1 .. e : s[j][1] \in Int
    BY <2>2 DEF Points
  <2> QED
    BY <2>1, <2>3
<1>2. q \in 1 .. e
  OBVIOUS
<1> HIDE DEF e
<1>3. 0 \in 0 .. e /\ e \in 0 .. e
      /\ (\A j \in 0 .. e : j # 0 => j \in 1 .. e /\ j - 1 \in 0 .. e)
      /\ \A j \in 1 .. e : j \in 0 .. e /\ j # 0
  BY <1>1, SMT
<1>4. PICK h \in [0 .. e -> Int] : Looped(h, e, 1, u, v, q)
  <2>1. u \in [0 .. e -> Int] /\ v \in [0 .. e -> Int] /\ 1 \in Int
    BY <1>1, <1>3
  <2> HIDE DEF u, v
  <2> QED
    BY <1>1, <2>1, LoopExists
<1>5. Body(h)
  <2>1. ASSUME NEW j \in 0 .. e
        PROVE  h[j] = IF j = 0 THEN 1
                      ELSE IF j = q THEN h[j - 1] ELSE (h[j - 1] * (-s[j][1])) % Prime
    <3>1. CASE j = 0
      BY <1>4, <3>1 DEF Looped
    <3>2. CASE j # 0
      <4>1. u[j] = (-s[j][1]) /\ v[j] = 0
        BY <3>2
      <4>2. h[j] = IF j = q THEN h[j - 1] ELSE (h[j - 1] * u[j] + v[j]) % Prime
        BY <1>3, <1>4, <3>2, Zenon DEF Looped
      <4>3. h[j - 1] * u[j] \in Int
        <5>1. h[j - 1] \in Int /\ u[j] \in Int
          BY <1>1, <1>3, <3>2, <4>1
        <5> QED
          BY <5>1, SMT
      <4>4. h[j - 1] * u[j] + 0 = h[j - 1] * u[j]
        BY <4>3, SMT
      <4> QED
        BY <3>2, <4>1, <4>2, <4>4, Zenon
    <3> QED
      BY <3>1, <3>2
  <2>2. h = [j \in 0 .. e |-> h[j]]
    OBVIOUS
  <2> QED
    BY <2>1, <2>2
<1>6. PICK r : Body(r) /\ Numerator(s, q) = r[e]
  <2>1. Numerator(s, q) = (CHOOSE g : Body(g))[e]
    BY DEF Numerator, e
  <2> QED
    BY <1>5, <2>1
<1>7. \A j \in 0 .. e : r[j] = IF j = 0 THEN 1
                               ELSE IF j = q THEN r[j - 1] ELSE (r[j - 1] * (-s[j][1])) % Prime
  BY <1>6, Zenon
<1>8. r[0] = 1 /\ \A j \in 1 .. e : r[j] = IF j = q THEN r[j - 1] ELSE (r[j - 1] * (-s[j][1])) % Prime
  BY <1>3, <1>7, Zenon
<1>9. \A j \in 0 .. e : r[j] \in Int
  <2>1. ASSUME NEW j \in 1 .. e, r[j - 1] \in Int PROVE r[j] \in Int
    <3>1. r[j - 1] * (-s[j][1]) \in Int /\ 0 .. Prime - 1 \subseteq Int
      <4>1. (-s[j][1]) \in Int
        BY <1>1
      <4> QED
        BY <2>1, <4>1, SMT
    <3>2. (r[j - 1] * (-s[j][1])) % Prime \in Int
      BY <3>1, SameRemainder
    <3> QED
      BY <1>8, <2>1, <3>2
  <2>2. r[0] \in Int
    BY <1>8
  <2> QED
    BY <1>1, <2>1, <2>2, StaysNumber
<1>10. r \in [0 .. e -> Int]
  <2>1. r = [j \in 0 .. e |-> r[j]]
    BY <1>6, <1>7, Zenon
  <2> QED
    BY <1>9, <2>1
<1> QED
  BY <1>6, <1>8, <1>10 DEF e

LEMMA DenominatorLoop ==
  ASSUME NEW s \in Seq(Points), NEW q \in 1 .. Len(s)
  PROVE  \E r \in [0 .. Len(s) -> Int] :
           /\ r[0] = 1
           /\ \A j \in 1 .. Len(s) :
                r[j] = IF j = q THEN r[j - 1] ELSE (r[j - 1] * (s[q][1] - s[j][1])) % Prime
           /\ Denominator(s, q) = r[Len(s)]
<1> DEFINE e == Len(s)
           Body(h) == h = [j \in 0 .. e |->
                             IF j = 0 THEN 1
                             ELSE IF j = q THEN h[j - 1] ELSE (h[j - 1] * (s[q][1] - s[j][1])) % Prime]
           u == [j \in 0 .. e |-> IF j = 0 THEN 0 ELSE (s[q][1] - s[j][1])]
           v == [j \in 0 .. e |-> 0]
<1>1. e \in Nat /\ \A j \in 1 .. e : (s[q][1] - s[j][1]) \in Int
  <2>1. e \in Nat
    BY LenProperties
  <2>2. \A j \in 1 .. e : s[j] \in Points
    BY ElementOfSeq
  <2>3. \A j \in 1 .. e : s[j][1] \in Int
    BY <2>2 DEF Points
  <2> QED
    BY <2>1, <2>3
<1>2. q \in 1 .. e
  OBVIOUS
<1> HIDE DEF e
<1>3. 0 \in 0 .. e /\ e \in 0 .. e
      /\ (\A j \in 0 .. e : j # 0 => j \in 1 .. e /\ j - 1 \in 0 .. e)
      /\ \A j \in 1 .. e : j \in 0 .. e /\ j # 0
  BY <1>1, SMT
<1>4. PICK h \in [0 .. e -> Int] : Looped(h, e, 1, u, v, q)
  <2>1. u \in [0 .. e -> Int] /\ v \in [0 .. e -> Int] /\ 1 \in Int
    BY <1>1, <1>3
  <2> HIDE DEF u, v
  <2> QED
    BY <1>1, <2>1, LoopExists
<1>5. Body(h)
  <2>1. ASSUME NEW j \in 0 .. e
        PROVE  h[j] = IF j = 0 THEN 1
                      ELSE IF j = q THEN h[j - 1] ELSE (h[j - 1] * (s[q][1] - s[j][1])) % Prime
    <3>1. CASE j = 0
      BY <1>4, <3>1 DEF Looped
    <3>2. CASE j # 0
      <4>1. u[j] = (s[q][1] - s[j][1]) /\ v[j] = 0
        BY <3>2
      <4>2. h[j] = IF j = q THEN h[j - 1] ELSE (h[j - 1] * u[j] + v[j]) % Prime
        BY <1>3, <1>4, <3>2, Zenon DEF Looped
      <4>3. h[j - 1] * u[j] \in Int
        <5>1. h[j - 1] \in Int /\ u[j] \in Int
          BY <1>1, <1>3, <3>2, <4>1
        <5> QED
          BY <5>1, SMT
      <4>4. h[j - 1] * u[j] + 0 = h[j - 1] * u[j]
        BY <4>3, SMT
      <4> QED
        BY <3>2, <4>1, <4>2, <4>4, Zenon
    <3> QED
      BY <3>1, <3>2
  <2>2. h = [j \in 0 .. e |-> h[j]]
    OBVIOUS
  <2> QED
    BY <2>1, <2>2
<1>6. PICK r : Body(r) /\ Denominator(s, q) = r[e]
  <2>1. Denominator(s, q) = (CHOOSE g : Body(g))[e]
    BY DEF Denominator, e
  <2> QED
    BY <1>5, <2>1
<1>7. \A j \in 0 .. e : r[j] = IF j = 0 THEN 1
                               ELSE IF j = q THEN r[j - 1] ELSE (r[j - 1] * (s[q][1] - s[j][1])) % Prime
  BY <1>6, Zenon
<1>8. r[0] = 1 /\ \A j \in 1 .. e : r[j] = IF j = q THEN r[j - 1] ELSE (r[j - 1] * (s[q][1] - s[j][1])) % Prime
  BY <1>3, <1>7, Zenon
<1>9. \A j \in 0 .. e : r[j] \in Int
  <2>1. ASSUME NEW j \in 1 .. e, r[j - 1] \in Int PROVE r[j] \in Int
    <3>1. r[j - 1] * (s[q][1] - s[j][1]) \in Int /\ 0 .. Prime - 1 \subseteq Int
      <4>1. (s[q][1] - s[j][1]) \in Int
        BY <1>1
      <4> QED
        BY <2>1, <4>1, SMT
    <3>2. (r[j - 1] * (s[q][1] - s[j][1])) % Prime \in Int
      BY <3>1, SameRemainder
    <3> QED
      BY <1>8, <2>1, <3>2
  <2>2. r[0] \in Int
    BY <1>8
  <2> QED
    BY <1>1, <2>1, <2>2, StaysNumber
<1>10. r \in [0 .. e -> Int]
  <2>1. r = [j \in 0 .. e |-> r[j]]
    BY <1>6, <1>7, Zenon
  <2> QED
    BY <1>9, <2>1
<1> QED
  BY <1>6, <1>8, <1>10 DEF e

LEMMA RecoverLoop ==
  ASSUME NEW s \in Seq(Points), \A i \in 1 .. Len(s) : Term(s, i) \in Int
  PROVE  \E r \in [0 .. Len(s) -> Int] :
           /\ r[0] = 0
           /\ \A i \in 1 .. Len(s) : r[i] = (r[i - 1] + Term(s, i)) % Prime
           /\ Recover(s) = r[Len(s)]
<1> DEFINE e == Len(s)
           Body(h) == h = [i \in 0 .. e |-> IF i = 0 THEN 0 ELSE (h[i - 1] + Term(s, i)) % Prime]
           u == [i \in 0 .. e |-> 1]
           v == [i \in 0 .. e |-> IF i = 0 THEN 0 ELSE Term(s, i)]
<1>1. e \in Nat /\ \A i \in 1 .. e : Term(s, i) \in Int
  BY LenProperties
<1> HIDE DEF e
<1>2. 0 \in 0 .. e /\ e \in 0 .. e
      /\ (\A i \in 0 .. e : i # 0 => i \in 1 .. e /\ i - 1 \in 0 .. e)
      /\ \A i \in 1 .. e : i \in 0 .. e /\ i # 0
  BY <1>1, SMT
<1>3. PICK h \in [0 .. e -> Int] : Looped(h, e, 0, u, v, 0)
  <2>1. u \in [0 .. e -> Int] /\ v \in [0 .. e -> Int] /\ 0 \in Int
    BY <1>1, <1>2
  <2> HIDE DEF u, v
  <2> QED
    BY <1>1, <2>1, LoopExists
<1>4. Body(h)
  <2>1. ASSUME NEW i \in 0 .. e PROVE h[i] = IF i = 0 THEN 0 ELSE (h[i - 1] + Term(s, i)) % Prime
    <3>1. CASE i = 0
      BY <1>3, <3>1 DEF Looped
    <3>2. CASE i # 0
      <4>1. u[i] = 1 /\ v[i] = Term(s, i)
        BY <3>2
      <4>2. h[i] = (h[i - 1] * u[i] + v[i]) % Prime
        BY <1>2, <1>3, <3>2, Zenon DEF Looped
      <4>3. h[i - 1] * 1 = h[i - 1]
        <5>1. h[i - 1] \in Int
          BY <1>2, <3>2
        <5> QED
          BY <5>1, SMT
      <4> QED
        BY <3>2, <4>1, <4>2, <4>3, Zenon
    <3> QED
      BY <3>1, <3>2
  <2>2. h = [i \in 0 .. e |-> h[i]]
    OBVIOUS
  <2> QED
    BY <2>1, <2>2
<1>5. PICK r : Body(r) /\ Recover(s) = r[e]
  <2>1. Recover(s) = (CHOOSE g : Body(g))[e]
    BY DEF Recover, e
  <2> QED
    BY <1>4, <2>1
<1>6. \A i \in 0 .. e : r[i] = IF i = 0 THEN 0 ELSE (r[i - 1] + Term(s, i)) % Prime
  BY <1>5, Zenon
<1>7. r[0] = 0 /\ \A i \in 1 .. e : r[i] = (r[i - 1] + Term(s, i)) % Prime
  BY <1>2, <1>6, Zenon
<1>8. \A i \in 0 .. e : r[i] \in Int
  <2>1. ASSUME NEW i \in 1 .. e, r[i - 1] \in Int PROVE r[i] \in Int
    <3>1. r[i - 1] + Term(s, i) \in Int /\ 0 .. Prime - 1 \subseteq Int
      BY <1>1, <2>1, SMT
    <3>2. (r[i - 1] + Term(s, i)) % Prime \in Int
      BY <3>1, SameRemainder
    <3> QED
      BY <1>7, <3>2
  <2>2. r[0] \in Int
    BY <1>7
  <2> QED
    BY <1>1, <2>1, <2>2, StaysNumber
<1>9. r \in [0 .. e -> Int]
  <2>1. r = [i \in 0 .. e |-> r[i]]
    BY <1>5, <1>6, Zenon
  <2> QED
    BY <1>8, <2>1
<1> QED
  BY <1>5, <1>7, <1>9 DEF e

(* What is shared is the value of a polynomial, whose value at 0 is the    *)
(* secret.                                                                 *)
Evaluates(r, s, x) ==
  /\ r[0] = 0
  /\ \A i \in 1 .. Len(s) : r[i] = (r[i - 1] * x + s[Len(s) + 1 - i]) % Prime

LEMMA EvalSteps ==
  ASSUME NEW s \in Seq(Int)
  PROVE  \A i \in 0 .. Len(s) :
           \E f \in Poly(i) :
             /\ i # 0 => f[0] = s[Len(s) + 1 - i]
             /\ \A x \in Int : \A r \in [0 .. Len(s) -> Int] : Evaluates(r, s, x) => Same(r[i], f[x])
<1> DEFINE e == Len(s)
           Fits(i, f) == /\ i # 0 => f[0] = s[e + 1 - i]
                         /\ \A x \in Int : \A r \in [0 .. e -> Int] : Evaluates(r, s, x) => Same(r[i], f[x])
           T == {i \in Nat : i <= e => \E f \in Poly(i) : Fits(i, f)}
<1>1. e \in Nat /\ \A i \in 1 .. e : s[e + 1 - i] \in Int
  <2>1. e \in Nat /\ \A i \in 1 .. e : e + 1 - i \in 1 .. e
    BY LenProperties, SMT
  <2> QED
    BY <2>1, ElementOfSeq
<1>2. 0 \in T
  <2> DEFINE o == [z \in Int |-> 0]
  <2>1. o \in Poly(0)
    BY PolyNone
  <2>2. Same(0, 0)
    BY SameSelf, 0 \in Int
  <2>3. \A x \in Int : o[x] = 0
    OBVIOUS
  <2> HIDE DEF o
  <2>4. Fits(0, o)
    BY <2>2, <2>3 DEF Evaluates
  <2> HIDE DEF Fits
  <2> QED
    BY <2>1, <2>4
<1>3. ASSUME NEW i \in T PROVE i + 1 \in T
  <2> DEFINE j == i + 1
  <2>1. j \in Nat /\ (j <= e => i <= e) /\ j - 1 = i /\ (j <= e => j \in 1 .. e /\ i \in 0 .. e /\ j \in 0 .. e) /\ j # 0
    BY <1>1, SMT
  <2>2. ASSUME j <= e PROVE \E f \in Poly(j) : Fits(j, f)
    <3>1. PICK g \in Poly(i) : Fits(i, g)
      BY <2>1, <2>2
    <3> DEFINE d == s[e + 1 - j]
               f == [z \in Int |-> z * g[z] + d]
    <3>2. d \in Int
      BY <1>1, <2>1, <2>2
    <3>3. f \in Poly(j)
      <4> HIDE DEF d
      <4> QED
        BY <3>2, PolyGrows
    <3>4. \A x \in Int : f[x] = x * g[x] + d
      OBVIOUS
    <3>5. f[0] = d
      <4>1. g[0] \in Int
        BY PolyMaps, 0 \in Int
      <4> DEFINE y == g[0]
      <4>2. y \in Int /\ f[0] = 0 * y + d
        BY <3>4, <4>1, 0 \in Int
      <4> HIDE DEF y, f, d
      <4> QED
        BY <3>2, <4>2, SMT
    <3>6. ASSUME NEW x \in Int, NEW r \in [0 .. e -> Int], Evaluates(r, s, x) PROVE Same(r[j], f[x])
      <4> DEFINE y == r[i]
                 w == g[x]
      <4>1. r[j] = (y * x + d) % Prime
        <5>1. r[j] = (r[j - 1] * x + s[e + 1 - j]) % Prime
          <6> HIDE DEF j
          <6> QED
            BY <2>1, <2>2, <3>6 DEF Evaluates
        <5> HIDE DEF j
        <5> QED
          BY <2>1, <5>1
      <4>2. Same(y, w)
        BY <3>1, <3>6
      <4>3. y \in Int /\ w \in Int
        <5>1. y \in Int
          BY <2>1, <2>2
        <5> QED
          BY <5>1, PolyMaps
      <4>4. f[x] = x * w + d
        BY <3>4
      <4> HIDE DEF f, y, w, d, j
      <4>5. y * x \in Int /\ y * x + d \in Int /\ x * w \in Int /\ x * w + d \in Int /\ w * x = x * w
            /\ w * x \in Int
        BY <3>2, <4>3, SMT
      <4>6. Same(y * x, w * x)
        BY <4>2, <4>3, SameTimes
      <4>7. Same(y * x + d, w * x + d)
        BY <3>2, <4>5, <4>6, SameSelf, SameSum
      <4>8. Same((y * x + d) % Prime, y * x + d) /\ (y * x + d) % Prime \in Int
        <5>1. 0 .. Prime - 1 \subseteq Int
          BY SMT
        <5> QED
          BY <4>5, <5>1, SameRemainder
      <4>9. w * x + d \in Int
        BY <4>5
      <4>10. Same((y * x + d) % Prime, w * x + d)
        BY <4>5, <4>7, <4>8, <4>9, SameOn
      <4> QED
        BY <4>1, <4>4, <4>5, <4>10, Zenon
    <3> HIDE DEF f, j
    <3>7. Fits(j, f)
      BY <3>5, <3>6
    <3> HIDE DEF Fits
    <3> QED
      BY <3>3, <3>7
  <2> HIDE DEF Fits, e
  <2> QED
    BY <2>1, <2>2
<1>4. \A i \in Nat : i \in T
  <2>1. T \in SUBSET Nat
    OBVIOUS
  <2> HIDE DEF T
  <2> QED
    BY <1>2, <1>3, <2>1, BySteps
<1>5. \A i \in 0 .. e : i \in Nat /\ i <= e
  BY <1>1, SMT
<1>6. ASSUME NEW i \in 0 .. e PROVE \E f \in Poly(i) : Fits(i, f)
  <2> HIDE DEF Fits
  <2> QED
    BY <1>4, <1>5
<1> QED
  BY <1>6

LEMMA EvalIsPoly ==
  ASSUME NEW s \in Seq(Int), Len(s) # 0
  PROVE  \E f \in Poly(Len(s)) :
           /\ f[0] = s[1]
           /\ \A x \in Int : EvalPoly(s, x) \in 0 .. Prime - 1 /\ Same(EvalPoly(s, x), f[x])
<1> DEFINE e == Len(s)
<1>1. e \in Nat /\ e \in 0 .. e /\ e # 0 /\ e + 1 - e = 1 /\ e \in 1 .. e /\ 1 \in 1 .. e /\ e - 1 \in 0 .. e
  <2>1. e \in Nat
    BY LenProperties
  <2> QED
    BY <2>1, SMT
<1>2. PICK f \in Poly(e) :
        /\ e # 0 => f[0] = s[e + 1 - e]
        /\ \A x \in Int : \A r \in [0 .. e -> Int] : Evaluates(r, s, x) => Same(r[e], f[x])
  BY <1>1, EvalSteps
<1>3. f[0] = s[1]
  BY <1>1, <1>2
<1>4. ASSUME NEW x \in Int PROVE EvalPoly(s, x) \in 0 .. Prime - 1 /\ Same(EvalPoly(s, x), f[x])
  <2>1. PICK r \in [0 .. e -> Int] :
          /\ r[0] = 0
          /\ \A i \in 1 .. e : r[i] = (r[i - 1] * x + s[e + 1 - i]) % Prime
          /\ EvalPoly(s, x) = r[e]
    BY EvalLoop
  <2>2. Evaluates(r, s, x)
    BY <2>1 DEF Evaluates
  <2>3. Same(EvalPoly(s, x), f[x])
    BY <1>2, <2>1, <2>2
  <2>4. r[e] = (r[e - 1] * x + s[1]) % Prime
    <3>1. r[e] = (r[e - 1] * x + s[e + 1 - e]) % Prime
      BY <1>1, <2>1
    <3> QED
      BY <1>1, <3>1
  <2>5. s[1] \in Int /\ r[e - 1] \in Int
    BY <1>1, ElementOfSeq
  <2> DEFINE y == r[e - 1] * x + s[1]
  <2>6. y \in Int
    BY <2>5, SMT
  <2>7. y % Prime \in 0 .. Prime - 1
    <3> HIDE DEF y
    <3> QED
      BY <2>6, SameRemainder
  <2> QED
    BY <2>1, <2>3, <2>4, <2>7
<1> QED
  BY <1>3, <1>4

-----------------------------------------------------------------------------
(* Lagrange interpolation.  For every shard there is a polynomial that     *)
(* vanishes at the others, with the values that recover computes at 0 and  *)
(* at the shard itself.                                                    *)
Basis(B, s, q, j, top, bottom) ==
  /\ \A l \in 1 .. j : l # q => B[s[l][1]] = 0
  /\ Same(B[0], top[j])
  /\ Same(B[s[q][1]], bottom[j]) /\ ~ Same(B[s[q][1]], 0)

Apart(s) == \A i, j \in 1 .. Len(s) : i # j => ~ Same(s[i][1] - s[j][1], 0)

Size(j, q) == IF j < q THEN j + 1 ELSE j

LEMMA NextValue ==
  ASSUME NEW b \in Int, NEW t \in Int, NEW c \in Int, Same(b, t)
  PROVE  Same(c * b, (t * c) % Prime)
<1>1. c * b \in Int /\ t * c \in Int /\ t * c = c * t /\ c * t \in Int /\ 0 .. Prime - 1 \subseteq Int
  BY SMT
<1>2. Same(c * b, c * t)
  BY SameTimes
<1> DEFINE x == t * c
<1>3. x \in Int /\ Same(c * b, x) /\ c * b \in Int
  BY <1>1, <1>2, Zenon
<1> HIDE DEF x
<1>4. Same(x, x % Prime) /\ x % Prime \in Int
  BY <1>1, <1>3, SameRemainder
<1>5. Same(c * b, x % Prime)
  BY <1>3, <1>4, SameOn
<1> QED
  BY <1>5 DEF x

(* The products of recover, from shard to shard. *)
TopLoop(top, s, q) ==
  /\ top[0] = 1
  /\ \A j \in 1 .. Len(s) : top[j] = IF j = q THEN top[j - 1] ELSE (top[j - 1] * (-s[j][1])) % Prime

BottomLoop(bottom, s, q) ==
  /\ bottom[0] = 1
  /\ \A j \in 1 .. Len(s) :
       bottom[j] = IF j = q THEN bottom[j - 1] ELSE (bottom[j - 1] * (s[q][1] - s[j][1])) % Prime

LEMMA FirstBasis ==
  ASSUME NEW s, NEW q \in Nat \ {0}, NEW top, NEW bottom, s[q][1] \in Int,
         TopLoop(top, s, q), BottomLoop(bottom, s, q)
  PROVE  \E B \in Poly(Size(0, q)) : Basis(B, s, q, 0, top, bottom)
<1> DEFINE o == [z \in Int |-> 0]
           u == [z \in Int |-> z * o[z] + 1]
<1>1. o \in Poly(0)
  BY PolyNone
<1>2. u \in Poly(0 + 1)
  <2> HIDE DEF o
  <2>1. 0 \in Nat /\ 1 \in Int
    BY SMT
  <2> QED
    BY <1>1, <2>1, PolyGrows
<1>3. \A z \in Int : u[z] = 1
  <2>1. \A z \in Int : z * 0 + 1 = 1
    BY SMT
  <2> QED
    BY <2>1
<1> HIDE DEF u, o
<1>4. 1 .. 0 = {} /\ 0 \in Int /\ 1 \in Int /\ 0 < q
  BY SMT
<1>5. Same(1, 1)
  BY <1>4, SameSelf
<1>6. ~ Same(1, 0)
  <2>1. 1 < Prime /\ -Prime < 1
    BY PrimeAssumption, SMT
  <2> QED
    BY <1>4, <2>1, SmallIsNone
<1>7. u[0] = 1 /\ u[s[q][1]] = 1 /\ top[0] = 1 /\ bottom[0] = 1
  BY <1>3, <1>4 DEF TopLoop, BottomLoop
<1>8. Basis(u, s, q, 0, top, bottom)
  BY <1>4, <1>5, <1>6, <1>7, Zenon DEF Basis
<1>9. Size(0, q) = 0 + 1
  BY <1>4 DEF Size
<1> QED
  BY <1>2, <1>8, <1>9, Zenon

LEMMA NextBasis ==
  ASSUME NEW s \in Seq(Points), NEW q \in 1 .. Len(s), Apart(s),
         NEW top \in [0 .. Len(s) -> Int], NEW bottom \in [0 .. Len(s) -> Int],
         TopLoop(top, s, q), BottomLoop(bottom, s, q),
         NEW i \in Nat, i + 1 <= Len(s),
         NEW B \in Poly(Size(i, q)), Basis(B, s, q, i, top, bottom)
  PROVE  \E C \in Poly(Size(i + 1, q)) : Basis(C, s, q, i + 1, top, bottom)
<1> DEFINE e == Len(s)
           j == i + 1
<1>1. e \in Nat /\ \A l \in 1 .. e : s[l][1] \in Int
  <2>1. e \in Nat
    BY LenProperties
  <2>2. \A l \in 1 .. e : s[l] \in Points
    BY ElementOfSeq
  <2> QED
    BY <2>1, <2>2 DEF Points
<1>2. /\ j \in Nat /\ j - 1 = i /\ j \in 1 .. e /\ i \in 0 .. e /\ 0 \in Int
      /\ \A l \in 1 .. j : l = j \/ l \in 1 .. i
      /\ \A l \in 1 .. j : l \in 1 .. e
      /\ \A l \in 1 .. i : l \in 1 .. j
  BY <1>1, SMT
<1>3. q \in 1 .. e
  OBVIOUS
<1>4. CASE j = q
  <2>1. Size(j, q) = Size(i, q)
    <3>1. i < q /\ ~(j < q)
      BY <1>4, SMT
    <3> QED
      BY <3>1 DEF Size
  <2>2. top[j] = top[i] /\ bottom[j] = bottom[i]
    <3> HIDE DEF j, e
    <3>1. top[j] = top[j - 1] /\ bottom[j] = bottom[j - 1]
      BY <1>2, <1>4 DEF TopLoop, BottomLoop, e
    <3> QED
      BY <1>2, <3>1
  <2>3. Basis(B, s, q, j, top, bottom)
    <3> HIDE DEF j
    <3> QED
      BY <1>2, <1>4, <2>2 DEF Basis
  <2> HIDE DEF j
  <2> QED
    BY <2>1, <2>3, Zenon DEF j
<1>5. CASE j # q
  <2> DEFINE a == s[j][1]
             x == s[q][1]
             C == [z \in Int |-> (z - a) * B[z]]
  <2>1. a \in Int /\ x \in Int
    <3> HIDE DEF j, e
    <3> QED
      BY <1>1, <1>2, <1>3
  <2>2. Size(i, q) \in Nat /\ Size(j, q) = Size(i, q) + 1
    <3>1. CASE i < q
      <4>1. j < q
        BY <1>5, <3>1, SMT
      <4> QED
        BY <1>2, <3>1, <4>1 DEF Size
    <3>2. CASE ~(i < q)
      <4>1. ~(j < q)
        BY <3>2, SMT
      <4> QED
        BY <1>2, <3>2, <4>1 DEF Size
    <3> QED
      BY <3>1, <3>2
  <2>3. C \in Poly(Size(j, q))
    <3>1. C \in Poly(Size(i, q) + 1)
      <4> HIDE DEF a
      <4> QED
        BY <2>1, <2>2, PolyTimes
    <3> HIDE DEF C
    <3> QED
      BY <2>2, <3>1
  <2>4. \A z \in Int : C[z] = (z - a) * B[z] /\ B[z] \in Int
    <3> HIDE DEF a
    <3> QED
      BY <2>2, PolyMaps
  <2> HIDE DEF C
  <2>5. ASSUME NEW l \in 1 .. j, l # q PROVE C[s[l][1]] = 0
    <3> DEFINE y == s[l][1]
               b == B[y]
    <3>1. y \in Int
      <4> HIDE DEF j, e
      <4> QED
        BY <1>1, <1>2
    <3>2. C[y] = (y - a) * b /\ b \in Int
      BY <2>4, <3>1
    <3>3. CASE l = j
      <4>1. y = a
        BY <3>3
      <4> HIDE DEF a, b, y
      <4>2. y - a = 0
        BY <3>1, <4>1, SMT
      <4>3. 0 * b = 0
        BY <3>2, SMT
      <4> QED
        BY <3>2, <4>2, <4>3, Zenon DEF y
    <3>4. CASE l \in 1 .. i
      <4>1. b = 0
        BY <2>5, <3>4 DEF Basis
      <4> HIDE DEF a, b, y
      <4>2. (y - a) * 0 = 0
        BY <2>1, <3>1, SMT
      <4> QED
        BY <3>2, <4>1, <4>2, Zenon DEF y
    <3> HIDE DEF j
    <3> QED
      BY <1>2, <3>3, <3>4
  <2>6. Same(C[0], top[j])
    <3> DEFINE b == B[0]
               t == top[i]
    <3>1. C[0] = (0 - a) * b /\ b \in Int /\ t \in Int
      <4> HIDE DEF a
      <4> QED
        BY <1>2, <2>4
    <3>2. top[j] = (t * (-a)) % Prime
      <4>1. top[j] = (top[j - 1] * (-s[j][1])) % Prime
        <5> HIDE DEF j
        <5> QED
          BY <1>2, <1>5 DEF TopLoop
      <4> HIDE DEF j
      <4> QED
        BY <1>2, <4>1
    <3>3. Same(b, t)
      BY DEF Basis
    <3> HIDE DEF a, b, t
    <3>4. -a \in Int /\ 0 - a = -a
      BY <2>1, SMT
    <3>5. Same((-a) * b, (t * (-a)) % Prime)
      BY <3>1, <3>3, <3>4, NextValue
    <3> QED
      BY <3>1, <3>2, <3>4, <3>5, Zenon
  <2>7. Same(C[x], bottom[j]) /\ ~ Same(C[x], 0)
    <3> DEFINE b == B[x]
               t == bottom[i]
    <3>1. C[x] = (x - a) * b /\ b \in Int /\ t \in Int
      <4> HIDE DEF a, x
      <4> QED
        BY <1>2, <2>1, <2>4
    <3>2. bottom[j] = (t * (x - a)) % Prime
      <4>1. bottom[j] = (bottom[j - 1] * (s[q][1] - s[j][1])) % Prime
        <5> HIDE DEF j
        <5> QED
          BY <1>2, <1>5 DEF BottomLoop
      <4> HIDE DEF j
      <4> QED
        BY <1>2, <4>1
    <3>3. Same(b, t) /\ ~ Same(b, 0)
      BY DEF Basis
    <3>4. ~ Same(x - a, 0)
      <4> HIDE DEF j
      <4> QED
        BY <1>2, <1>5 DEF Apart
    <3> HIDE DEF a, b, t, x
    <3>5. x - a \in Int
      BY <2>1
    <3>6. Same((x - a) * b, (t * (x - a)) % Prime)
      BY <3>1, <3>3, <3>5, NextValue
    <3>7. ~ Same((x - a) * b, 0)
      BY <3>1, <3>3, <3>4, <3>5, Euclid
    <3> QED
      BY <3>1, <3>2, <3>6, <3>7, Zenon
  <2>8. Basis(C, s, q, j, top, bottom)
    <3> HIDE DEF j
    <3> QED
      BY <2>5, <2>6, <2>7 DEF Basis
  <2> HIDE DEF j
  <2> QED
    BY <2>3, <2>8, Zenon DEF j
<1> QED
  BY <1>4, <1>5

LEMMA BasisExists ==
  ASSUME NEW s \in Seq(Points), NEW q \in 1 .. Len(s), Apart(s),
         NEW top \in [0 .. Len(s) -> Int], NEW bottom \in [0 .. Len(s) -> Int],
         TopLoop(top, s, q), BottomLoop(bottom, s, q)
  PROVE  \E B \in Poly(Len(s)) : Basis(B, s, q, Len(s), top, bottom)
<1> DEFINE e == Len(s)
           Good(j) == \E B \in Poly(Size(j, q)) : Basis(B, s, q, j, top, bottom)
           T == {j \in Nat : j <= e => Good(j)}
<1>1. e \in Nat /\ q \in Nat \ {0} /\ q \in 1 .. e
  <2>1. e \in Nat
    BY LenProperties
  <2> QED
    BY <2>1, SMT
<1>2. 0 \in T
  <2>1. s[q][1] \in Int
    BY ElementOfSeq DEF Points
  <2>2. Good(0)
    BY <1>1, <2>1, FirstBasis
  <2> HIDE DEF Good
  <2> QED
    BY <2>2
<1>3. ASSUME NEW i \in T PROVE i + 1 \in T
  <2>1. i + 1 \in Nat /\ (i + 1 <= e => i <= e)
    BY <1>1, SMT
  <2>2. ASSUME i + 1 <= e PROVE Good(i + 1)
    <3>1. Good(i)
      <4> HIDE DEF Good
      <4> QED
        BY <2>1, <2>2
    <3>2. PICK B \in Poly(Size(i, q)) : Basis(B, s, q, i, top, bottom)
      BY <3>1
    <3> QED
      BY <2>2, <3>2, NextBasis
  <2> HIDE DEF Good
  <2> QED
    BY <2>1, <2>2
<1>4. Good(e)
  <2>1. T \in SUBSET Nat
    OBVIOUS
  <2>2. \A i \in Nat : i \in T
    <3> HIDE DEF T
    <3> QED
      BY <1>2, <1>3, <2>1, BySteps
  <2>3. e <= e
    BY <1>1, SMT
  <2> HIDE DEF Good, e
  <2> QED
    BY <1>1, <2>2, <2>3
<1>5. Size(e, q) = e
  <2>1. ~(e < q)
    BY <1>1, SMT
  <2> QED
    BY <2>1 DEF Size
<1> QED
  BY <1>4, <1>5

(* A term of the sum is the value at 0 of a polynomial that has the        *)
(* shard's own value at the shard and vanishes at the others.              *)
Summand(C, s, q) ==
  /\ \A l \in 1 .. Len(s) : l # q => C[s[l][1]] = 0
  /\ Same(C[s[q][1]], s[q][2])
  /\ Term(s, q) \in Int /\ Same(C[0], Term(s, q))

LEMMA TermIsSummand ==
  ASSUME NEW s \in Seq(Points), NEW q \in 1 .. Len(s), Apart(s)
  PROVE  \E C \in Poly(Len(s)) : Summand(C, s, q)
<1> DEFINE e == Len(s)
           x == s[q][1]
           y == s[q][2]
           top == Numerator(s, q)
           bottom == Denominator(s, q)
           p == Power(bottom, Prime - 2)
<1>1. e \in Nat /\ e \in 0 .. e /\ 0 \in Int /\ 1 \in Int
  <2>1. e \in Nat
    BY LenProperties
  <2> QED
    BY <2>1, SMT
<1>2. x \in Int /\ y \in Int /\ \A l \in 1 .. e : s[l][1] \in Int
  <2>1. \A l \in 1 .. e : s[l] \in Points
    BY ElementOfSeq
  <2> QED
    BY <2>1 DEF Points
<1>3. PICK t \in [0 .. e -> Int] : TopLoop(t, s, q) /\ top = t[e]
  BY NumeratorLoop DEF TopLoop
<1>4. PICK b \in [0 .. e -> Int] : BottomLoop(b, s, q) /\ bottom = b[e]
  BY DenominatorLoop DEF BottomLoop
<1>5. PICK B \in Poly(e) : Basis(B, s, q, e, t, b)
  BY <1>3, <1>4, BasisExists
<1>6. top \in Int /\ bottom \in Int
  BY <1>1, <1>3, <1>4
<1> DEFINE v == B[x]
           z0 == B[0]
<1>7. v \in Int /\ z0 \in Int
  BY <1>1, <1>2, PolyMaps
<1>8. Same(z0, top) /\ Same(v, bottom) /\ ~ Same(v, 0)
  BY <1>3, <1>4, <1>5 DEF Basis
<1>9. ~ Same(bottom, 0)
  <2> HIDE DEF v, bottom
  <2> QED
    BY <1>1, <1>6, <1>7, <1>8, SameOn
<1>10. p \in Int /\ Same(p * bottom, 1)
  <2> HIDE DEF bottom
  <2> QED
    BY <1>6, <1>9, PowerInverts
<1>11. Term(s, q) = (y * top * p) % Prime
  BY DEF Term
<1> DEFINE c == y * p
           C == [z \in Int |-> c * B[z]]
<1>12. c \in Int
  <2> HIDE DEF p, y
  <2> QED
    BY <1>2, <1>10, SMT
<1>13. C \in Poly(e)
  <2> HIDE DEF c
  <2> QED
    BY <1>1, <1>12, PolyScale
<1>14. \A z \in Int : C[z] = c * B[z]
  OBVIOUS
<1>15. C[x] = c * v /\ C[0] = c * z0
  BY <1>1, <1>2, <1>14
<1>16. \A l \in 1 .. e : l # q => C[s[l][1]] = 0
  <2> SUFFICES ASSUME NEW l \in 1 .. e, l # q PROVE C[s[l][1]] = 0
    OBVIOUS
  <2>1. B[s[l][1]] = 0
    BY <1>5 DEF Basis
  <2>2. C[s[l][1]] = c * B[s[l][1]]
    BY <1>2, <1>14
  <2> HIDE DEF c, C
  <2>3. c * 0 = 0
    BY <1>12, SMT
  <2> QED
    BY <2>1, <2>2, <2>3, Zenon
<1> HIDE DEF C, v, z0, top, bottom, p, x, y, e
<1>17. /\ c * v \in Int /\ c * bottom \in Int /\ c * bottom = y * (p * bottom) /\ y * (p * bottom) \in Int
       /\ y * 1 = y /\ p * bottom \in Int
       /\ c * z0 \in Int /\ c * top \in Int /\ c * top = y * top * p /\ y * top * p \in Int
  <2>1. (y * p) * bottom = y * (p * bottom)
    BY <1>2, <1>6, <1>10, SMT
  <2>2. (y * p) * top = y * top * p
    BY <1>2, <1>6, <1>10, SMT
  <2>3. y * 1 = y /\ p * bottom \in Int /\ y * top \in Int
    BY <1>2, <1>6, <1>10, SMT
  <2>4. y * (p * bottom) \in Int /\ y * top * p \in Int
    BY <1>2, <1>10, <2>3, SMT
  <2>5. c * bottom = y * (p * bottom) /\ c * top = y * top * p
    BY <2>1, <2>2
  <2> HIDE DEF c
  <2>6. c * v \in Int /\ c * bottom \in Int /\ c * z0 \in Int /\ c * top \in Int
    BY <1>6, <1>7, <1>12, SMT
  <2> QED
    BY <2>3, <2>4, <2>5, <2>6
<1>18. Same(c * v, y)
  <2> HIDE DEF c
  <2>1. Same(c * v, c * bottom)
    BY <1>6, <1>7, <1>8, <1>12, SameTimes
  <2>2. Same(y * (p * bottom), y * 1)
    BY <1>1, <1>2, <1>10, <1>17, SameTimes
  <2>3. Same(c * bottom, y)
    BY <1>17, <2>2, Zenon
  <2> QED
    BY <1>2, <1>17, <2>1, <2>3, SameOn
<1>19. Term(s, q) \in Int /\ Same(c * z0, Term(s, q))
  <2> HIDE DEF c
  <2>1. Same(c * z0, c * top)
    BY <1>6, <1>7, <1>8, <1>12, SameTimes
  <2> DEFINE a == y * top * p
  <2>2. a \in Int /\ Same(c * z0, a) /\ Term(s, q) = a % Prime
    BY <1>11, <1>17, <2>1
  <2> HIDE DEF a
  <2>3. Same(a, a % Prime) /\ a % Prime \in Int
    <3>1. 0 .. Prime - 1 \subseteq Int
      BY SMT
    <3> QED
      BY <2>2, <3>1, SameRemainder
  <2>4. Same(c * z0, a % Prime)
    BY <1>17, <2>2, <2>3, SameOn
  <2> QED
    BY <2>2, <2>3, <2>4
<1> HIDE DEF c
<1>20. Summand(C, s, q)
  BY <1>15, <1>16, <1>18, <1>19 DEF Summand, x, y, e
<1> QED
  BY <1>13, <1>20 DEF e

(* The sum of the first ones has the values of the first shards.           *)
Sums(G, s, r, i) ==
  /\ \A l \in 1 .. Len(s) : Same(G[s[l][1]], IF l <= i THEN s[l][2] ELSE 0)
  /\ Same(G[0], r[i])

LEMMA SumExists ==
  ASSUME NEW s \in Seq(Points), Apart(s), NEW r \in [0 .. Len(s) -> Int], r[0] = 0,
         \A i \in 1 .. Len(s) : r[i] = (r[i - 1] + Term(s, i)) % Prime
  PROVE  \E G \in Poly(Len(s)) : Sums(G, s, r, Len(s))
<1> DEFINE e == Len(s)
           Good(i) == \E G \in Poly(e) : Sums(G, s, r, i)
           T == {i \in Nat : i <= e => Good(i)}
<1>1. e \in Nat /\ 0 \in 0 .. e /\ 0 \in Int /\ \A l \in 1 .. e : s[l][1] \in Int /\ s[l][2] \in Int
  <2>1. e \in Nat
    BY LenProperties
  <2>2. \A l \in 1 .. e : s[l] \in Points
    BY ElementOfSeq
  <2>3. 0 \in 0 .. e /\ 0 \in Int
    BY <2>1, SMT
  <2> QED
    BY <2>1, <2>2, <2>3 DEF Points
<1>2. 0 \in T
  <2> DEFINE o == [z \in Int |-> 0]
  <2>1. o \in Poly(e)
    <3>1. o \in Poly(0)
      BY PolyNone
    <3> HIDE DEF o, e
    <3> QED
      BY <1>1, <3>1, PolyMost
  <2>2. \A z \in Int : o[z] = 0
    OBVIOUS
  <2>3. Same(0, 0) /\ \A l \in 1 .. e : ~(l <= 0)
    <3>1. \A l \in 1 .. e : ~(l <= 0)
      BY <1>1, SMT
    <3> QED
      BY <1>1, <3>1, SameSelf
  <2> HIDE DEF o
  <2>4. \A l \in 1 .. e : Same(o[s[l][1]], IF l <= 0 THEN s[l][2] ELSE 0)
    BY <1>1, <2>2, <2>3, Zenon
  <2>5. Same(o[0], r[0])
    BY <1>1, <2>2, <2>3, Zenon
  <2>6. Sums(o, s, r, 0)
    BY <2>4, <2>5 DEF Sums
  <2>7. Good(0)
    BY <2>1, <2>6
  <2> HIDE DEF Good
  <2> QED
    BY <2>7
<1>3. ASSUME NEW i \in T PROVE i + 1 \in T
  <2> DEFINE j == i + 1
  <2>1. j \in Nat /\ (j <= e => i <= e)
    BY <1>1, SMT
  <2>2. ASSUME j <= e PROVE Good(j)
    <3>1. Good(i)
      <4> HIDE DEF Good
      <4> QED
        BY <2>1, <2>2
    <3>2. PICK G \in Poly(e) : Sums(G, s, r, i)
      BY <3>1
    <3>3. j \in 1 .. e /\ i \in 0 .. e /\ j - 1 = i
      BY <2>1, <2>2, SMT
    <3>4. PICK C \in Poly(e) : Summand(C, s, j)
      <4> HIDE DEF j
      <4> QED
        BY <3>3, TermIsSummand
    <3> DEFINE H == [z \in Int |-> G[z] + C[z]]
    <3>5. H \in Poly(e)
      BY <1>1, PolySum
    <3>6. \A z \in Int : H[z] = G[z] + C[z] /\ G[z] \in Int /\ C[z] \in Int
      <4>1. \A z \in Int : G[z] \in Int /\ C[z] \in Int
        BY PolyMaps
      <4> QED
        BY <4>1
    <3> HIDE DEF H
    <3>7. ASSUME NEW l \in 1 .. e PROVE Same(H[s[l][1]], IF l <= j THEN s[l][2] ELSE 0)
      <4> DEFINE x == s[l][1]
                 y == s[l][2]
                 a == G[x]
                 b == C[x]
      <4>1. x \in Int /\ y \in Int
        BY <1>1
      <4>2. H[x] = a + b /\ a \in Int /\ b \in Int
        BY <3>6, <4>1
      <4>3. Same(a, IF l <= i THEN y ELSE 0)
        BY <3>2 DEF Sums
      <4>4. CASE l = j
        <5>1. Same(b, y)
          BY <3>4, <4>4 DEF Summand
        <5>2. ~(l <= i) /\ l <= j
          BY <1>1, <4>4, SMT
        <5>3. Same(a, 0)
          BY <4>3, <5>2
        <5> HIDE DEF a, b, y, x, j
        <5>4. 0 + y = y
          BY <4>1, SMT
        <5>5. Same(a + b, 0 + y)
          BY <1>1, <4>1, <4>2, <5>1, <5>3, SameSum
        <5>6. Same(H[x], y)
          BY <4>2, <5>4, <5>5, Zenon
        <5> QED
          BY <5>2, <5>6 DEF x, y
      <4>5. CASE l # j
        <5>1. b = 0
          BY <3>4, <4>5 DEF Summand
        <5>2. l <= i <=> l <= j
          BY <1>1, <4>5, SMT
        <5> HIDE DEF a, b, j
        <5>3. a + 0 = a
          BY <4>2, SMT
        <5>4. H[x] = a
          BY <4>2, <5>1, <5>3, Zenon
        <5> QED
          BY <4>3, <5>2, <5>4
      <4> QED
        BY <4>4, <4>5
    <3>8. Same(H[0], r[j])
      <4> DEFINE a == G[0]
                 b == C[0]
                 d == Term(s, j)
                 w == r[i]
      <4>1. H[0] = a + b /\ a \in Int /\ b \in Int /\ w \in Int
        <5>1. H[0] = a + b /\ a \in Int /\ b \in Int
          BY <1>1, <3>6
        <5> QED
          BY <3>3, <5>1
      <4>2. Same(a, w)
        BY <3>2 DEF Sums
      <4>3. d \in Int /\ Same(b, d)
        BY <3>4 DEF Summand
      <4>4. r[j] = (w + d) % Prime
        <5>1. r[j] = (r[j - 1] + Term(s, j)) % Prime
          <6> HIDE DEF j
          <6> QED
            BY <3>3
        <5> HIDE DEF j
        <5> QED
          BY <3>3, <5>1, Zenon DEF d
      <4> HIDE DEF a, b, d, w, j
      <4>5. a + b \in Int /\ w + d \in Int
        BY <4>1, <4>3, SMT
      <4>6. Same(a + b, w + d)
        BY <4>1, <4>2, <4>3, SameSum
      <4> DEFINE u == w + d
      <4>7. u \in Int /\ Same(a + b, u)
        BY <4>5, <4>6
      <4> HIDE DEF u
      <4>8. Same(u, u % Prime) /\ u % Prime \in Int
        <5>1. 0 .. Prime - 1 \subseteq Int
          BY SMT
        <5> QED
          BY <4>7, <5>1, SameRemainder
      <4>9. Same(a + b, u % Prime)
        BY <4>5, <4>7, <4>8, SameOn
      <4> QED
        BY <4>1, <4>4, <4>9, Zenon DEF u
    <3> HIDE DEF j
    <3>9. Sums(H, s, r, j)
      BY <3>7, <3>8 DEF Sums
    <3> QED
      BY <3>5, <3>9
  <2> HIDE DEF Good, e
  <2> QED
    BY <2>1, <2>2
<1>4. Good(e)
  <2>1. T \in SUBSET Nat
    OBVIOUS
  <2>2. \A i \in Nat : i \in T
    <3> HIDE DEF T
    <3> QED
      BY <1>2, <1>3, <2>1, BySteps
  <2>3. e <= e
    BY <1>1, SMT
  <2> HIDE DEF Good, e
  <2> QED
    BY <1>1, <2>2, <2>3
<1> QED
  BY <1>4

(* So recover returns the value at 0 of any polynomial that is no larger   *)
(* than the number of shards and has their values.                         *)
LEMMA RecoverIsValue ==
  ASSUME NEW s \in Seq(Points), Apart(s), NEW f \in Poly(Len(s)),
         \A l \in 1 .. Len(s) : Same(s[l][2], f[s[l][1]])
  PROVE  Recover(s) \in Int /\ Same(Recover(s), f[0]) /\ (Len(s) # 0 => Recover(s) \in 0 .. Prime - 1)
<1> DEFINE e == Len(s)
<1>1. e \in Nat /\ e \in 0 .. e /\ 0 \in Int /\ (\A l \in 1 .. e : s[l][1] \in Int /\ s[l][2] \in Int)
      /\ \A l \in 1 .. e : l <= e
  <2>1. e \in Nat
    BY LenProperties
  <2>2. \A l \in 1 .. e : s[l] \in Points
    BY ElementOfSeq
  <2>3. e \in 0 .. e /\ 0 \in Int /\ \A l \in 1 .. e : l <= e
    BY <2>1, SMT
  <2> QED
    BY <2>1, <2>2, <2>3 DEF Points
<1>2. \A i \in 1 .. e : Term(s, i) \in Int
  <2> SUFFICES ASSUME NEW i \in 1 .. e PROVE Term(s, i) \in Int
    OBVIOUS
  <2>1. \E C \in Poly(e) : Summand(C, s, i)
    BY TermIsSummand
  <2> QED
    BY <2>1 DEF Summand
<1>3. PICK r \in [0 .. e -> Int] :
        r[0] = 0 /\ (\A i \in 1 .. e : r[i] = (r[i - 1] + Term(s, i)) % Prime) /\ Recover(s) = r[e]
  BY <1>2, RecoverLoop
<1>4. PICK G \in Poly(e) : Sums(G, s, r, e)
  BY <1>3, SumExists
<1>19. ASSUME e # 0 PROVE r[e] \in 0 .. Prime - 1
  <2>1. e \in 1 .. e /\ e - 1 \in 0 .. e
    BY <1>1, <1>19, SMT
  <2> DEFINE d == r[e - 1] + Term(s, e)
  <2>2. r[e - 1] \in Int /\ Term(s, e) \in Int
    <3> HIDE DEF e
    <3> QED
      BY <1>2, <2>1
  <2>3. d \in Int
    BY <2>2, SMT
  <2>4. r[e] = d % Prime
    <3> HIDE DEF e
    <3> QED
      BY <1>3, <2>1
  <2> HIDE DEF d
  <2>5. d % Prime \in 0 .. Prime - 1
    BY <2>3, SameRemainder
  <2> QED
    BY <2>4, <2>5
<1> DEFINE g == [z \in Int |-> (-1) * f[z]]
           H == [z \in Int |-> G[z] + g[z]]
<1>5. g \in Poly(e)
  <2>1. -1 \in Int
    BY SMT
  <2> QED
    BY <1>1, <2>1, PolyScale
<1>6. H \in Poly(e)
  <2> HIDE DEF g
  <2> QED
    BY <1>1, <1>5, PolySum
<1>7. \A z \in Int : H[z] = G[z] + (-1) * f[z] /\ G[z] \in Int /\ f[z] \in Int
  <2>1. \A z \in Int : G[z] \in Int /\ f[z] \in Int
    BY PolyMaps
  <2> QED
    BY <2>1
<1> HIDE DEF g, H
<1> DEFINE x == [l \in 1 .. e |-> s[l][1]]
<1>8. x \in [1 .. e -> Int] /\ \A l \in 1 .. e : x[l] = s[l][1]
  BY <1>1
<1> HIDE DEF x
<1>9. Different(x, e)
  BY <1>8 DEF Different, Apart
<1>10. Vanishes(H, x, e)
  <2> SUFFICES ASSUME NEW l \in 1 .. e PROVE Same(H[x[l]], 0)
    BY DEF Vanishes
  <2> DEFINE z == s[l][1]
             y == s[l][2]
             a == G[z]
             b == f[z]
  <2>1. x[l] = z /\ z \in Int /\ y \in Int
    BY <1>1, <1>8
  <2>2. H[z] = a + (-1) * b /\ a \in Int /\ b \in Int
    BY <1>7, <2>1
  <2>3. Same(a, y) /\ Same(y, b)
    <3>1. Same(a, IF l <= e THEN y ELSE 0)
      BY <1>4 DEF Sums
    <3> QED
      BY <1>1, <3>1
  <2> HIDE DEF z, y, a, b
  <2>4. Same(a, b)
    BY <2>1, <2>2, <2>3, SameOn
  <2>5. (-1) * b \in Int /\ b + (-1) * b = 0
    BY <2>2, SMT
  <2>6. Same(a + (-1) * b, b + (-1) * b)
    BY <2>2, <2>4, <2>5, SameSelf, SameSum
  <2> QED
    BY <2>1, <2>2, <2>5, <2>6, Zenon
<1>11. Same(H[0], 0)
  <2> HIDE DEF e
  <2> QED
    BY <1>1, <1>6, <1>8, <1>9, <1>10, PolyRoots
<1> DEFINE a == G[0]
           b == f[0]
           w == r[e]
<1>12. H[0] = a + (-1) * b /\ a \in Int /\ b \in Int /\ w \in Int /\ Same(a, w)
  <2>1. H[0] = a + (-1) * b /\ a \in Int /\ b \in Int
    BY <1>1, <1>7
  <2>2. w \in Int
    BY <1>1
  <2>3. Same(a, w)
    BY <1>4 DEF Sums
  <2> QED
    BY <2>1, <2>2, <2>3
<1> HIDE DEF a, b, w, e
<1>13. (-1) * b \in Int /\ a + (-1) * b \in Int /\ (a + (-1) * b) + b = a /\ 0 + b = b
  BY <1>12, SMT
<1>14. Same(a + (-1) * b, 0)
  BY <1>11, <1>12
<1>15. Same((a + (-1) * b) + b, 0 + b)
  BY <1>1, <1>12, <1>13, <1>14, SameSelf, SameSum
<1>16. Same(a, b)
  BY <1>13, <1>15, Zenon
<1>17. Same(w, a)
  BY <1>12, SameBack
<1>18. Same(w, b)
  BY <1>12, <1>16, <1>17, SameOn
<1> QED
  BY <1>3, <1>12, <1>18, <1>19, Zenon DEF w, b, e

-----------------------------------------------------------------------------
(* What is known of an artifact: its shards lie on a polynomial with k     *)
(* coefficients whose value at 0 is the locked seed.                       *)
Shared(f) ==
  /\ f[0] = seed
  /\ \A p \in shards : \E i \in 1 .. Shards, y \in 0 .. Prime - 1 : p = <<i, y>> /\ Same(y, f[i])

Sealed ==
  /\ k \in 1 .. Shards /\ seed \in Nat /\ locked = Squared(seed)
  /\ \E f \in Poly(k) : Shared(f)

Unshared == seed = 0 /\ recovered = 0 /\ held = <<>>

Decrypted == Len(held) >= k /\ recovered = Recover(held)

ShareInv ==
  /\ held \in Seq(shards)
  /\ \/ Unshared /\ outcome \in {"bare", "sealing", "text", "corrupted"}
     \/ Sealed /\ outcome \in {"sealed", "too few"}
     \/ Sealed /\ Decrypted /\ outcome \in {"open", "text", "corrupted"} /\ Verified(recovered)
     \/ Sealed /\ Decrypted /\ outcome = "seed refused" /\ ~ Verified(recovered)

LEMMA ShareInit == PipelineInit => ShareInv
<1> SUFFICES ASSUME PipelineInit PROVE ShareInv
  OBVIOUS
<1>1. seed = 0 /\ recovered = 0 /\ held = <<>> /\ outcome \in {"bare", "sealing"}
  BY DEF PipelineInit
<1>2. held \in Seq(shards)
  BY <1>1, EmptySeq
<1> QED
  BY <1>1, <1>2 DEF ShareInv, Unshared

LEMMA SealShares == ShareInv /\ Seal => ShareInv'
<1> SUFFICES ASSUME ShareInv, Seal PROVE ShareInv'
  OBVIOUS
<1>1. /\ outcome = "sealing" /\ k' \in Threshold /\ seed' \in 0 .. Modulus - 1
      /\ locked' = Squared(seed') /\ outcome' = "sealed" /\ held' = held
  BY DEF Seal
<1>2. PICK rest \in [1 .. k' - 1 -> 0 .. Prime - 1] :
        shards' = {<<i, EvalPoly(<<seed'>> \o rest, i)>> : i \in 1 .. Shards}
  BY DEF Seal
<1>3. held = <<>>
  BY <1>1 DEF ShareInv, Unshared
<1>4. held' \in Seq(shards')
  BY <1>1, <1>3, EmptySeq
<1>5. k' \in 1 .. Shards /\ k' \in Nat \ {0} /\ seed' \in Nat /\ seed' \in Int
  BY <1>1, ShardAssumption, PrimeAssumption, SMT
<1> DEFINE a == <<seed'>>
           c == a \o rest
<1>6. c \in Seq(Int) /\ Len(c) = k' /\ c[1] = seed'
  <2>1. k' - 1 \in Nat /\ 0 .. Prime - 1 \subseteq Int /\ 1 + (k' - 1) = k' /\ 1 \in 1 .. 1 + (k' - 1)
    <3> DEFINE m == k'
    <3>1. m \in Nat \ {0}
      BY <1>5
    <3> HIDE DEF m
    <3>2. m - 1 \in Nat /\ 1 + (m - 1) = m /\ 1 \in 1 .. 1 + (m - 1)
      BY <3>1, SMT
    <3>3. 0 .. Prime - 1 \subseteq Int
      BY SMT
    <3> QED
      BY <3>2, <3>3 DEF m
  <2>2. rest \in [1 .. k' - 1 -> Int]
    BY <2>1
  <2>3. rest \in Seq(Int) /\ Len(rest) = k' - 1
    <3> DEFINE m == k' - 1
    <3>1. m \in Nat /\ rest \in [1 .. m -> Int]
      BY <2>1, <2>2
    <3> HIDE DEF m
    <3>2. rest \in Seq(Int) /\ Len(rest) = m
      BY <3>1
    <3> QED
      BY <3>2 DEF m
  <2>4. a \in Seq(Int) /\ Len(a) = 1 /\ a[1] = seed'
    BY <1>5
  <2> HIDE DEF a
  <2>5. /\ a \o rest \in Seq(Int)
        /\ Len(a \o rest) = Len(a) + Len(rest)
        /\ \A i \in 1 .. Len(a) + Len(rest) :
             (a \o rest)[i] = IF i <= Len(a) THEN a[i] ELSE rest[i - Len(a)]
    BY <2>3, <2>4, ConcatProperties
  <2>6. c[1] = a[1]
    <3>1. 1 <= 1
      BY SMT
    <3> QED
      BY <2>1, <2>3, <2>4, <2>5, <3>1
  <2> QED
    BY <2>1, <2>3, <2>4, <2>5, <2>6
<1>7. \A i \in 1 .. Shards : i \in Int
  BY SMT
<1> HIDE DEF c
<1>8. PICK f \in Poly(k') :
        f[0] = seed' /\ \A x \in Int : EvalPoly(c, x) \in 0 .. Prime - 1 /\ Same(EvalPoly(c, x), f[x])
  <2>1. Len(c) # 0
    BY <1>5, <1>6
  <2> QED
    BY <1>6, <2>1, EvalIsPoly
<1>9. \A p \in shards' : \E i \in 1 .. Shards, y \in 0 .. Prime - 1 : p = <<i, y>> /\ Same(y, f[i])
  <2>1. shards' = {<<i, EvalPoly(c, i)>> : i \in 1 .. Shards}
    BY <1>2 DEF c
  <2> QED
    BY <1>7, <1>8, <2>1
<1>10. Sealed'
  <2>1. Shared(f)'
    BY <1>8, <1>9 DEF Shared
  <2> QED
    BY <1>1, <1>5, <2>1 DEF Sealed
<1> QED
  BY <1>1, <1>4, <1>10 DEF ShareInv

LEMMA ArtifactStays == UNCHANGED artifact /\ Sealed => Sealed'
<1> SUFFICES ASSUME UNCHANGED artifact, Sealed PROVE Sealed'
  OBVIOUS
<1>1. k' = k /\ seed' = seed /\ shards' = shards /\ locked' = locked
  BY DEF artifact
<1>2. PICK f \in Poly(k) : Shared(f)
  BY DEF Sealed
<1>3. Shared(f)'
  BY <1>1, <1>2 DEF Shared
<1> QED
  BY <1>1, <1>3 DEF Sealed

LEMMA ShareStep == ShareInv /\ [Next]_<<vars, pipeline>> => ShareInv'
<1> SUFFICES ASSUME ShareInv, [Next]_<<vars, pipeline>> PROVE ShareInv'
  OBVIOUS
<1>1. ASSUME UNCHANGED pipeline PROVE ShareInv'
  <2>1. UNCHANGED artifact /\ held' = held /\ recovered' = recovered /\ outcome' = outcome
    BY <1>1 DEF pipeline
  <2>2. k' = k /\ seed' = seed /\ shards' = shards /\ locked' = locked
    BY <2>1 DEF artifact
  <2> QED
    BY <2>1, <2>2, ArtifactStays DEF ShareInv, Unshared, Decrypted, Verified
<1>2. CASE Seal
  BY <1>2, SealShares
<1>3. CASE Collect
  <2>1. UNCHANGED artifact /\ recovered' = recovered /\ outcome' = outcome /\ outcome = "sealed"
    BY <1>3 DEF Collect
  <2>2. PICK p \in shards : held' = Append(held, p)
    BY <1>3 DEF Collect
  <2>3. held' \in Seq(shards) /\ shards' = shards
    BY <2>1, <2>2, AppendProperties DEF ShareInv, artifact
  <2>4. Sealed'
    BY <2>1, ArtifactStays DEF ShareInv
  <2> QED
    BY <2>1, <2>3, <2>4 DEF ShareInv
<1>4. CASE Refuse
  <2>1. UNCHANGED artifact /\ held' = held /\ outcome = "sealed" /\ outcome' = "too few"
    BY <1>4 DEF Refuse
  <2>2. shards' = shards /\ Sealed'
    BY <2>1, ArtifactStays DEF ShareInv, artifact
  <2> QED
    BY <2>1, <2>2 DEF ShareInv
<1>5. CASE Open
  <2>1. /\ UNCHANGED artifact /\ held' = held /\ outcome = "sealed" /\ ~ TooFew
        /\ recovered' = Recover(held)
        /\ outcome' = IF Verified(recovered') THEN "open" ELSE "seed refused"
    BY <1>5 DEF Open
  <2>2. shards' = shards /\ k' = k /\ locked' = locked /\ Sealed /\ Sealed'
    BY <2>1, ArtifactStays DEF ShareInv, artifact
  <2>3. Len(held) >= k
    <3>1. Len(held) \in Nat /\ k \in Nat
      <4>1. k \in 1 .. Shards
        BY <2>2 DEF Sealed
      <4>2. Len(held) \in Nat
        BY LenProperties DEF ShareInv
      <4> QED
        BY <4>1, <4>2, SMT
    <3> DEFINE m == Len(held)
    <3>2. ~(m < k)
      BY <2>1 DEF TooFew
    <3> HIDE DEF m
    <3>3. m >= k
      BY <3>1, <3>2, SMT DEF m
    <3> QED
      BY <3>3 DEF m
  <2>4. Decrypted'
    BY <2>1, <2>2, <2>3 DEF Decrypted
  <2>5. \/ outcome' = "open" /\ Verified(recovered)'
        \/ outcome' = "seed refused" /\ ~ Verified(recovered)'
    <3>1. CASE Squared(recovered') = locked
      <4>1. outcome' = "open"
        BY <2>1, <3>1 DEF Verified
      <4>2. Verified(recovered)'
        BY <2>2, <3>1 DEF Verified
      <4> QED
        BY <4>1, <4>2
    <3>2. CASE Squared(recovered') # locked
      <4>1. outcome' = "seed refused"
        BY <2>1, <3>2 DEF Verified
      <4>2. ~ Verified(recovered)'
        BY <2>2, <3>2 DEF Verified
      <4> QED
        BY <4>1, <4>2
    <3> QED
      BY <3>1, <3>2
  <2>6. held' \in Seq(shards')
    BY <2>1, <2>2 DEF ShareInv
  <2> QED
    BY <2>2, <2>4, <2>5, <2>6 DEF ShareInv
<1>6. CASE Restore
  <2>1. UNCHANGED artifact /\ held' = held /\ recovered' = recovered /\ outcome \in {"bare", "open"}
        /\ outcome' \in {outcome, "text", "corrupted"}
    <3>1. Verdict(restored') \in {outcome, "text", "corrupted"}
      BY DEF Verdict
    <3> QED
      BY <1>6, <3>1 DEF Restore
  <2>2. k' = k /\ seed' = seed /\ shards' = shards /\ locked' = locked
    BY <2>1 DEF artifact
  <2>3. CASE outcome = "bare"
    <3>1. Unshared /\ Unshared'
      BY <2>1, <2>2, <2>3 DEF ShareInv, Unshared
    <3> QED
      BY <2>1, <2>2, <2>3, <3>1 DEF ShareInv
  <2>4. CASE outcome = "open"
    <3>1. Sealed /\ Decrypted /\ Verified(recovered)
      BY <2>4 DEF ShareInv, Unshared
    <3>2. Sealed' /\ Decrypted' /\ Verified(recovered)'
      BY <2>1, <2>2, <3>1, ArtifactStays DEF Decrypted, Verified
    <3> QED
      BY <2>1, <2>2, <2>4, <3>2 DEF ShareInv
  <2> QED
    BY <2>1, <2>3, <2>4
<1>7. CASE Braiding \/ Reversing \/ UNCHANGED <<vars, pipeline>>
  <2>1. UNCHANGED pipeline
    BY <1>7 DEF Braiding, Reversing
  <2> QED
    BY <1>1, <2>1
<1> QED
  BY <1>2, <1>3, <1>4, <1>5, <1>6, <1>7 DEF Next, Running

(* Sealing puts the shards on a polynomial with k coefficients whose value *)
(* at 0 is the seed, and nothing that runs afterwards, braid and reverse   *)
(* included, takes them off it or collects a shard that is not of them.    *)
THEOREM SharesLieOnPolynomial == Spec => []ShareInv
BY ShareInit, ShareStep, PTL DEF Spec

(* Different shards are at different places, as only one of them lies on   *)
(* the polynomial there; places are less than the prime apart.             *)
LEMMA HeldApart ==
  ASSUME ShareInv, Sealed, Distinct(held)
  PROVE  held \in Seq(Points) /\ Apart(held)
<1>1. PICK f \in Poly(k) : Shared(f)
  BY DEF Sealed
<1>2. \A p \in shards : \E i \in 1 .. Shards, y \in 0 .. Prime - 1 : p = <<i, y>> /\ Same(y, f[i])
  BY <1>1 DEF Shared
<1>3. 0 .. Prime - 1 \subseteq Int /\ 1 .. Shards \subseteq Int
  BY SMT
<1>4. shards \subseteq Points
  BY <1>2, <1>3 DEF Points
<1>5. held \in Seq(Points)
  <2>1. held \in Seq(shards)
    BY DEF ShareInv
  <2> QED
    BY <1>4, <2>1, SeqMonotonic
<1>6. ASSUME NEW i \in 1 .. Len(held), NEW j \in 1 .. Len(held), i # j
      PROVE  ~ Same(held[i][1] - held[j][1], 0)
  <2>1. held[i] \in shards /\ held[j] \in shards
    BY ElementOfSeq DEF ShareInv
  <2>2. PICK a \in 1 .. Shards, b \in 0 .. Prime - 1 : held[i] = <<a, b>> /\ Same(b, f[a])
    BY <1>2, <2>1
  <2>3. PICK c \in 1 .. Shards, d \in 0 .. Prime - 1 : held[j] = <<c, d>> /\ Same(d, f[c])
    BY <1>2, <2>1
  <2>4. held[i] # held[j]
    BY <1>6 DEF Distinct
  <2>5. a # c
    <3> SUFFICES ASSUME a = c PROVE FALSE
      OBVIOUS
    <3>1. f[a] \in Int /\ b \in Int /\ d \in Int
      <4>1. a \in Int /\ b \in Int /\ d \in Int
        BY <1>3
      <4> QED
        BY <4>1, PolyMaps
    <3>2. Same(f[a], d)
      BY <2>3, <3>1, SameBack
    <3>3. Same(b, d)
      BY <2>2, <3>1, <3>2, SameOn
    <3>4. b = d
      BY <3>3, SameNumber
    <3> QED
      BY <2>2, <2>3, <2>4, <3>4
  <2>6. a - c \in Int /\ a - c # 0 /\ a - c < Prime /\ -Prime < a - c
    BY <2>5, ShardAssumption, PrimeAssumption, SMT
  <2>7. ~ Same(a - c, 0)
    BY <2>6, SmallIsNone
  <2> QED
    BY <2>2, <2>3, <2>7
<1> QED
  BY <1>5, <1>6 DEF Apart

LEMMA SharesRecover ==
  ASSUME ShareInv, Sealed, Distinct(held), Len(held) >= k
  PROVE  Recover(held) = seed % Prime
<1>1. held \in Seq(Points) /\ Apart(held)
  BY HeldApart
<1>2. PICK f \in Poly(k) : Shared(f)
  BY DEF Sealed
<1> DEFINE e == Len(held)
<1>3. e \in Nat /\ k \in 0 .. e /\ e # 0
  <2>1. e \in Nat
    BY <1>1, LenProperties
  <2>2. k \in 1 .. Shards /\ e >= k
    BY DEF Sealed
  <2> HIDE DEF e
  <2> QED
    BY <2>1, <2>2, SMT
<1>4. f \in Poly(e)
  <2> HIDE DEF e
  <2> QED
    BY <1>3, PolyMost
<1>5. \A l \in 1 .. e : Same(held[l][2], f[held[l][1]])
  <2> SUFFICES ASSUME NEW l \in 1 .. e PROVE Same(held[l][2], f[held[l][1]])
    OBVIOUS
  <2>1. held[l] \in shards
    BY ElementOfSeq DEF ShareInv
  <2>2. PICK i \in 1 .. Shards, y \in 0 .. Prime - 1 : held[l] = <<i, y>> /\ Same(y, f[i])
    BY <1>2, <2>1 DEF Shared
  <2> QED
    BY <2>2
<1>6. /\ Recover(held) \in Int /\ Same(Recover(held), f[0])
      /\ e # 0 => Recover(held) \in 0 .. Prime - 1
  BY <1>1, <1>4, <1>5, RecoverIsValue
<1>7. f[0] = seed /\ seed \in Int
  BY <1>2 DEF Shared, Sealed
<1>8. Same(seed, seed % Prime) /\ seed % Prime \in 0 .. Prime - 1 /\ seed % Prime \in Int
  <2>1. 0 .. Prime - 1 \subseteq Int
    BY SMT
  <2> QED
    BY <1>7, <2>1, SameRemainder
<1>9. Same(Recover(held), seed % Prime)
  BY <1>6, <1>7, <1>8, SameOn
<1> QED
  BY <1>3, <1>6, <1>8, <1>9, SameNumber

LEMMA InRange ==
  ASSUME Prime \in Nat, Prime > 1
  PROVE  0 \in 0 .. Prime - 1 /\ \A a \in Nat : a < Prime => a \in 0 .. Prime - 1
OBVIOUS

LEMMA SmallRemainder == ASSUME NEW a \in 0 .. Prime - 1 PROVE a % Prime = a
<1>1. a \in Int
  BY SMT
<1> QED
  BY <1>1, SameRemainder, SameNumber

(* For every prime, lock, number of shards, threshold and choice of        *)
(* coefficients: k or more different shards, in whatever order they were   *)
(* collected, give back the seed modulo the prime, and the lock refuses it *)
(* just when seed and remainder are squared to different numbers.          *)
THEOREM AnyShardsRecover == Spec => []ThresholdRecovers
<1>1. ShareInv => ThresholdRecovers
  <2> SUFFICES ASSUME ShareInv, outcome \notin {"bare", "sealing", "sealed", "too few"}, Distinct(held)
               PROVE  /\ recovered = seed % Prime
                      /\ outcome = "seed refused" <=> Squared(seed % Prime) # Squared(seed)
    BY DEF ThresholdRecovers
  <2>1. CASE Unshared /\ outcome \in {"text", "corrupted"}
    <3>1. 0 \in 0 .. Prime - 1
      BY InRange, PrimeAssumption
    <3>2. seed % Prime = 0 /\ seed = 0 /\ recovered = 0
      BY <2>1, <3>1, SmallRemainder DEF Unshared
    <3> QED
      BY <2>1, <3>2, Zenon
  <2>2. ASSUME Sealed, Decrypted
        PROVE  recovered = seed % Prime /\ (Verified(recovered) <=> Squared(seed % Prime) = Squared(seed))
    <3>1. recovered = seed % Prime
      BY <2>2, SharesRecover DEF Decrypted
    <3>2. locked = Squared(seed)
      BY <2>2 DEF Sealed
    <3> QED
      BY <3>1, <3>2 DEF Verified
  <2>3. CASE Sealed /\ Decrypted /\ outcome \in {"open", "text", "corrupted"} /\ Verified(recovered)
    BY <2>2, <2>3
  <2>4. CASE Sealed /\ Decrypted /\ outcome = "seed refused" /\ ~ Verified(recovered)
    BY <2>2, <2>4
  <2> QED
    BY <2>1, <2>3, <2>4 DEF ShareInv
<1> QED
  BY <1>1, SharesLieOnPolynomial, PTL

-----------------------------------------------------------------------------
(* Fibonacci numbers. *)
LEMMA FibSum == \A i \in Nat : Fib(i + 2) = Fib(i + 1) + Fib(i)
<1> SUFFICES ASSUME NEW i \in Nat PROVE Fib(i + 2) = Fib(i + 1) + Fib(i)
  OBVIOUS
<1>1. i + 1 \in Nat /\ i + 2 \in Nat
  BY SMT
<1>6. /\ \A e \in 1 .. i : e \in 1 .. i + 2
      /\ \A e \in 1 .. i + 1 : e \in 1 .. i + 2
  BY SMT
<1> DEFINE Pairs == Nat \X Nat
<1>2. PICK f \in [0 .. i -> Pairs] : FibLoop(f, i) /\ Fib(i) = f[i][1]
  BY FibSteps
<1>3. PICK g \in [0 .. i + 1 -> Pairs] : FibLoop(g, i + 1) /\ Fib(i + 1) = g[i + 1][1]
  BY <1>1, FibSteps
<1>4. PICK h \in [0 .. i + 2 -> Pairs] : FibLoop(h, i + 2) /\ Fib(i + 2) = h[i + 2][1]
  BY <1>1, FibSteps
<1> DEFINE Successor(p) == <<p[2], p[1] + p[2]>>
<1>5. /\ f[0] = <<0, 1>> /\ \A e \in 1 .. i : f[e] = Successor(f[e - 1])
      /\ g[0] = <<0, 1>> /\ \A e \in 1 .. i + 1 : g[e] = Successor(g[e - 1])
      /\ h[0] = <<0, 1>> /\ \A e \in 1 .. i + 2 : h[e] = Successor(h[e - 1])
  BY <1>2, <1>3, <1>4 DEF FibLoop
<1> HIDE DEF Successor, Pairs
<1>7. f[i] = h[i]
  <2>1. Parallel(f, h, i)
    BY <1>5, <1>6 DEF Parallel
  <2>2. \A e \in 0 .. i : f[e] = h[e]
    BY <2>1, SameRecursion
  <2>3. i \in 0 .. i
    OBVIOUS
  <2> QED
    BY <2>2, <2>3
<1>8. g[i + 1] = h[i + 1]
  <2>1. Parallel(g, h, i + 1)
    BY <1>5, <1>6 DEF Parallel
  <2>2. \A e \in 0 .. i + 1 : g[e] = h[e]
    BY <1>1, <2>1, SameRecursion
  <2>3. i + 1 \in 0 .. i + 1
    OBVIOUS
  <2> QED
    BY <2>2, <2>3
<1>9. h[i + 1] = Successor(h[i]) /\ h[i + 2] = Successor(h[i + 1])
  <2>1. i + 1 \in 1 .. i + 2 /\ (i + 1) - 1 = i /\ i + 2 \in 1 .. i + 2 /\ (i + 2) - 1 = i + 1
    BY SMT
  <2> QED
    BY <1>5, <2>1
<1>10. h[i] \in Pairs
  <2>1. i \in 0 .. i + 2
    BY SMT
  <2> QED
    BY <1>4, <2>1
<1> DEFINE a == h[i][1]
           b == h[i][2]
<1>11. a \in Nat /\ b \in Nat
  BY <1>10 DEF Pairs
<1>12. h[i + 1] = <<b, a + b>> /\ h[i + 2] = <<a + b, b + (a + b)>>
  BY <1>9 DEF Successor
<1>13. Fib(i) = a /\ Fib(i + 1) = b /\ Fib(i + 2) = a + b
  BY <1>2, <1>3, <1>4, <1>7, <1>8, <1>12
<1> HIDE DEF a, b
<1> QED
  BY <1>11, <1>13

LEMMA FibFirst == Fib(0) = 0 /\ Fib(1) = 1 /\ Fib(2) = 1 /\ Fib(3) = 2
<1>1. Fib(0) = 0
  <2>1. PICK h \in [0 .. 0 -> Nat \X Nat] : FibLoop(h, 0) /\ Fib(0) = h[0][1]
    BY FibSteps
  <2> QED
    BY <2>1 DEF FibLoop
<1>2. Fib(1) = 1
  <2>1. PICK h \in [0 .. 1 -> Nat \X Nat] : FibLoop(h, 1) /\ Fib(1) = h[1][1]
    BY FibSteps
  <2>2. h[0] = <<0, 1>> /\ h[1] = <<h[1 - 1][2], h[1 - 1][1] + h[1 - 1][2]>>
    <3>1. 1 \in 1 .. 1
      BY SMT
    <3> QED
      BY <2>1, <3>1 DEF FibLoop
  <2> QED
    BY <2>1, <2>2
<1>3. Fib(0 + 2) = Fib(0 + 1) + Fib(0)
  BY FibSum
<1>4. Fib(1 + 2) = Fib(1 + 1) + Fib(1)
  BY FibSum
<1>5. 0 + 2 = 2 /\ 0 + 1 = 1 /\ 1 + 2 = 3 /\ 1 + 1 = 2
  OBVIOUS
<1>6. Fib(2) = Fib(1) + Fib(0) /\ Fib(3) = Fib(2) + Fib(1)
  BY <1>3, <1>4, <1>5
<1> QED
  BY <1>1, <1>2, <1>6

LEMMA FibOrder == \A i, e \in Nat : i <= e => Fib(i) <= Fib(e)
<1> SUFFICES ASSUME NEW i \in Nat PROVE \A e \in Nat : i <= e => Fib(i) <= Fib(e)
  OBVIOUS
<1> DEFINE T == {e \in Nat : i <= e /\ ~(Fib(i) <= Fib(e))}
<1> SUFFICES ASSUME T # {} PROVE FALSE
  OBVIOUS
<1>1. PICK m \in T : \A e \in T : m <= e
  <2>1. T \in SUBSET Nat
    OBVIOUS
  <2> HIDE DEF T
  <2> QED
    BY <2>1, LeastElement
<1>2. m \in Nat /\ i <= m /\ ~(Fib(i) <= Fib(m)) /\ Fib(i) \in Nat /\ Fib(m) \in Nat
  BY FibIsNatural
<1>3. m # i
  BY <1>2
<1>4. m - 1 \in Nat /\ i <= m - 1 /\ ~(m <= m - 1)
  BY <1>2, <1>3
<1>5. Fib(i) <= Fib(m - 1)
  BY <1>1, <1>4
<1>6. Fib(m - 1) <= Fib(m)
  <2>1. CASE m = 1
    BY <2>1, FibFirst
  <2>2. CASE m # 1
    <3>1. m - 2 \in Nat /\ (m - 2) + 2 = m /\ (m - 2) + 1 = m - 1
      BY <1>2, <1>4, <2>2
    <3>2. Fib(m) = Fib(m - 1) + Fib(m - 2)
      BY <3>1, FibSum
    <3>3. Fib(m - 1) \in Nat /\ Fib(m - 2) \in Nat
      BY <1>4, <3>1, FibIsNatural
    <3> QED
      BY <3>2, <3>3
  <2> QED
    BY <2>1, <2>2
<1>7. Fib(m - 1) \in Nat
  BY <1>4, FibIsNatural
<1> QED
  BY <1>2, <1>5, <1>6, <1>7

(* What a natural course takes of the strands, and appends to the stream,  *)
(* in the rounds before the i-th.                                          *)
Lefts(i) == Fib(i + 1) - 1
Rights(i) == Fib(i + 2) - 2
Both(i) == Lefts(i) + Rights(i)

LEMMA RoundSums ==
  ASSUME NEW i \in Nat, i # 0
  PROVE  /\ Fib(i) \in Nat \ {0} /\ Fib(i + 1) \in Nat \ {0}
         /\ Lefts(i) \in Nat /\ Rights(i) \in Nat /\ Both(i) \in Nat
         /\ Lefts(i + 1) = Lefts(i) + Fib(i) /\ Rights(i + 1) = Rights(i) + Fib(i + 1)
         /\ Both(i + 1) = (Both(i) + Fib(i)) + Fib(i + 1)
<1>1. /\ i + 1 \in Nat /\ i + 2 \in Nat /\ i + 3 \in Nat /\ (i + 1) + 1 = i + 2 /\ (i + 1) + 2 = i + 3
      /\ 1 <= i /\ 1 <= i + 1 /\ 2 <= i + 1 /\ 3 <= i + 2 /\ 1 \in Nat /\ 2 \in Nat /\ 3 \in Nat
  BY SMT
<1>2. /\ Fib(i) \in Nat /\ Fib(i + 1) \in Nat /\ Fib(i + 2) \in Nat /\ Fib(i + 3) \in Nat
  BY <1>1, FibIsNatural
<1>3. 1 <= Fib(i) /\ 1 <= Fib(i + 1) /\ 2 <= Fib(i + 2)
  BY <1>1, FibFirst, FibOrder
<1>4. Fib(i + 2) = Fib(i + 1) + Fib(i) /\ Fib(i + 3) = Fib(i + 2) + Fib(i + 1)
  BY <1>1, FibSum
<1>5. /\ Lefts(i) = Fib(i + 1) - 1 /\ Rights(i) = Fib(i + 2) - 2
      /\ Lefts(i + 1) = Fib(i + 2) - 1 /\ Rights(i + 1) = Fib(i + 3) - 2
  BY <1>1 DEF Lefts, Rights
<1>6. Both(i) = Lefts(i) + Rights(i) /\ Both(i + 1) = Lefts(i + 1) + Rights(i + 1)
  BY DEF Both
<1> QED
  BY <1>2, <1>3, <1>4, <1>5, <1>6

LEMMA FirstSums == Lefts(1) = 0 /\ Rights(1) = 0 /\ Both(1) = 0
<1>1. 1 + 1 = 2 /\ 1 + 2 = 3
  OBVIOUS
<1> QED
  BY <1>1, FibFirst DEF Lefts, Rights, Both

-----------------------------------------------------------------------------
(* Slices. *)
Slice(s, a, b) == SubSeq(s, a + 1, b)

LEMMA SliceIn ==
  ASSUME NEW S, NEW s \in Seq(S), NEW a \in 0 .. Len(s), NEW b \in a .. Len(s)
  PROVE  /\ Slice(s, a, b) \in Seq(S) /\ Len(Slice(s, a, b)) = b - a
         /\ \A i \in 1 .. b - a : Slice(s, a, b)[i] = s[a + i] /\ a + i \in 1 .. Len(s)
<1> DEFINE m == Len(s)
<1>1. m \in Nat /\ \A i \in 1 .. m : s[i] \in S
  BY LenProperties, ElementOfSeq
<1> HIDE DEF m
<1>2. a \in 0 .. m /\ b \in a .. m
  BY DEF m
<1>3. /\ a + 1 \in Int /\ b \in Int /\ \A i \in a + 1 .. b : i \in 1 .. m
      /\ (IF a + 1 <= b THEN b - (a + 1) + 1 ELSE 0) = b - a /\ b - (a + 1) + 1 = b - a
      /\ \A i \in 1 .. b - a : a + i \in 1 .. m /\ (a + 1) + i - 1 = a + i
  BY <1>1, <1>2, SMT
<1>4. \A i \in a + 1 .. b : s[i] \in S
  BY <1>1, <1>3
<1>5. /\ SubSeq(s, a + 1, b) \in Seq(S)
      /\ Len(SubSeq(s, a + 1, b)) = IF a + 1 <= b THEN b - (a + 1) + 1 ELSE 0
      /\ \A i \in 1 .. b - (a + 1) + 1 : SubSeq(s, a + 1, b)[i] = s[(a + 1) + i - 1]
  BY <1>3, <1>4, SubSeqProperties
<1>6. \A i \in 1 .. b - a : SubSeq(s, a + 1, b)[i] = s[a + i]
  BY <1>3, <1>5
<1> QED
  BY <1>3, <1>5, <1>6 DEF m, Slice

LEMMA SliceOfSlice ==
  ASSUME NEW s \in Seq(Codes), NEW a \in 0 .. Len(s), NEW b \in a .. Len(s),
         NEW x \in 0 .. b - a, NEW y \in x .. b - a
  PROVE  Slice(Slice(s, a, b), x, y) = Slice(s, a + x, a + y)
<1> DEFINE m == Len(s)
           t == Slice(s, a, b)
           u == Slice(t, x, y)
           v == Slice(s, a + x, a + y)
<1>1. m \in Nat
  BY LenProperties
<1>2. t \in Seq(Codes) /\ Len(t) = b - a /\ \A i \in 1 .. b - a : t[i] = s[a + i]
  BY SliceIn
<1> HIDE DEF t
<1>3. x \in 0 .. Len(t) /\ y \in x .. Len(t)
  BY <1>2
<1>4. u \in Seq(Codes) /\ Len(u) = y - x /\ \A i \in 1 .. y - x : u[i] = t[x + i]
  BY <1>2, <1>3, SliceIn, ZenonT(40)
<1> HIDE DEF u, m
<1>5. a \in 0 .. m /\ b \in a .. m
  BY DEF m
<1>6. /\ a + x \in 0 .. m /\ a + y \in a + x .. m /\ (a + y) - (a + x) = y - x
      /\ \A i \in 1 .. y - x : x + i \in 1 .. b - a /\ a + (x + i) = (a + x) + i
  BY <1>1, <1>5, SMT
<1>7. /\ v \in Seq(Codes) /\ Len(v) = (a + y) - (a + x)
      /\ \A i \in 1 .. (a + y) - (a + x) : v[i] = s[(a + x) + i]
  <2>1. a + x \in 0 .. Len(s) /\ a + y \in a + x .. Len(s)
    BY <1>6 DEF m
  <2> QED
    BY <2>1, SliceIn
<1> HIDE DEF v
<1>8. \A i \in 1 .. Len(u) : u[i] = v[i]
  BY <1>2, <1>4, <1>6, <1>7
<1>9. u = v
  BY <1>4, <1>6, <1>7, <1>8, SeqEqual
<1> QED
  BY <1>9 DEF u, v, t

LEMMA SliceAll ==
  ASSUME NEW s \in Seq(Codes)
  PROVE  /\ Slice(s, 0, Len(s)) = s
         /\ \A a \in Nat : Slice(s, a, a) = <<>>
         /\ \A a \in 0 .. Len(s) : Slice(s, 0, a) = s => a = Len(s)
<1>1. 0 + 1 = 1 /\ Len(s) \in Nat
  BY LenProperties
<1>2. Slice(s, 0, Len(s)) = s
  BY <1>1, SubSeqFull DEF Slice
<1>3. ASSUME NEW a \in Nat PROVE Slice(s, a, a) = <<>>
  <2>1. a + 1 \in Int /\ a \in Int /\ a < a + 1
    BY SMT
  <2> QED
    BY <2>1, SubSeqEmpty DEF Slice
<1>4. ASSUME NEW a \in 0 .. Len(s), Slice(s, 0, a) = s PROVE a = Len(s)
  <2>1. 0 \in 0 .. Len(s) /\ a - 0 = a /\ a \in 0 .. Len(s)
    BY <1>1, SMT
  <2>2. Len(Slice(s, 0, a)) = a - 0
    BY <2>1, SliceIn
  <2> QED
    BY <1>4, <2>1, <2>2
<1> QED
  BY <1>2, <1>3, <1>4

LEMMA SliceJoin ==
  ASSUME NEW s \in Seq(Codes), NEW a \in 0 .. Len(s), NEW b \in a .. Len(s), NEW d \in b .. Len(s)
  PROVE  Slice(s, a, b) \o Slice(s, b, d) = Slice(s, a, d)
<1>1. Len(s) \in Nat
  BY LenProperties
<1> DEFINE m == Len(s)
<1> HIDE DEF m
<1>2. m \in Nat /\ a \in 0 .. m /\ b \in a .. m /\ d \in b .. m
  BY <1>1 DEF m
<1>3. a + 1 \in 1 .. m + 1 /\ b \in (a + 1) - 1 .. m
  BY <1>2, SMT
<1> QED
  BY <1>3, ConcatAdjacentSubSeq DEF Slice, m

LEMMA SliceOfConcat ==
  ASSUME NEW s \in Seq(Codes), NEW t \in Seq(Codes)
  PROVE  /\ s \o t \in Seq(Codes) /\ Len(s \o t) = Len(s) + Len(t)
         /\ \A a \in 0 .. Len(s) : \A b \in a .. Len(s) : Slice(s \o t, a, b) = Slice(s, a, b)
         /\ Slice(s \o t, Len(s), Len(s) + Len(t)) = t
<1> DEFINE w == s \o t
<1>1. /\ w \in Seq(Codes) /\ Len(s) \in Nat /\ Len(t) \in Nat /\ Len(w) = Len(s) + Len(t)
      /\ \A i \in 1 .. Len(s) + Len(t) : w[i] = IF i <= Len(s) THEN s[i] ELSE t[i - Len(s)]
  BY ConcatProperties, LenProperties
<1> HIDE DEF w
<1>4. w \in Seq(Codes)
  BY <1>1
<1>2. ASSUME NEW a \in 0 .. Len(s), NEW b \in a .. Len(s) PROVE Slice(w, a, b) = Slice(s, a, b)
  <2>1. /\ a \in 0 .. Len(w) /\ b \in a .. Len(w)
        /\ \A i \in 1 .. b - a : a + i \in 1 .. Len(s) + Len(t) /\ a + i <= Len(s)
    BY <1>1, SMT
  <2>2. /\ Slice(w, a, b) \in Seq(Codes) /\ Len(Slice(w, a, b)) = b - a
        /\ \A i \in 1 .. b - a : Slice(w, a, b)[i] = w[a + i]
    BY <1>4, <2>1, SliceIn
  <2>3. /\ Slice(s, a, b) \in Seq(Codes) /\ Len(Slice(s, a, b)) = b - a
        /\ \A i \in 1 .. b - a : Slice(s, a, b)[i] = s[a + i]
    BY SliceIn
  <2>4. \A i \in 1 .. b - a : Slice(w, a, b)[i] = Slice(s, a, b)[i]
    BY <1>1, <2>1, <2>2, <2>3
  <2> QED
    BY <2>2, <2>3, <2>4, SeqEqual
<1>3. Slice(w, Len(s), Len(s) + Len(t)) = t
  <2> DEFINE a == Len(s)
             b == Len(s) + Len(t)
             v == Slice(w, a, b)
  <2>1. /\ a \in 0 .. Len(w) /\ b \in a .. Len(w) /\ b - a = Len(t)
        /\ \A i \in 1 .. Len(t) : a + i \in 1 .. Len(s) + Len(t) /\ ~(a + i <= Len(s)) /\ (a + i) - Len(s) = i
    BY <1>1, SMT
  <2> HIDE DEF a, b
  <2>2. v \in Seq(Codes) /\ Len(v) = b - a /\ \A i \in 1 .. b - a : v[i] = w[a + i]
    BY <1>4, <2>1, SliceIn, ZenonT(40)
  <2> HIDE DEF v
  <2>3. \A i \in 1 .. Len(t) : v[i] = t[i]
    BY <1>1, <2>1, <2>2 DEF a
  <2>4. v = t
    BY <2>1, <2>2, <2>3, SeqEqual
  <2> QED
    BY <2>4 DEF v, a, b
<1> QED
  BY <1>1, <1>2, <1>3 DEF w

LEMMA ReverseTwice ==
  ASSUME NEW s \in Seq(Codes) PROVE Reverse(Reverse(s)) = s
<1> DEFINE t == Reverse(s)
           u == Reverse(t)
<1>1. /\ Len(s) \in Nat /\ t \in Seq(Codes) /\ Len(t) = Len(s)
      /\ \A i \in 1 .. Len(s) : t[i] = s[(Len(s) - i) + 1]
  BY LenProperties, CountReverse DEF Reverse
<1> HIDE DEF t
<1>2. /\ u \in Seq(Codes) /\ Len(u) = Len(s)
      /\ \A i \in 1 .. Len(t) : u[i] = t[(Len(t) - i) + 1]
  BY <1>1, CountReverse DEF Reverse
<1> HIDE DEF u
<1>3. ASSUME NEW i \in 1 .. Len(s) PROVE u[i] = s[i]
  <2>1. (Len(s) - i) + 1 \in 1 .. Len(s) /\ (Len(s) - ((Len(s) - i) + 1)) + 1 = i
    BY <1>1, SMT
  <2>2. u[i] = t[(Len(s) - i) + 1]
    BY <1>1, <1>2
  <2> QED
    BY <1>1, <2>1, <2>2
<1>4. u = s
  BY <1>2, <1>3, SeqEqual
<1> QED
  BY <1>4 DEF u, t

(* A portion is popped off a strand of which p still holds, the last       *)
(* first, what lies beyond the a-th.                                       *)
LEMMA OnePopped ==
  ASSUME NEW p \in Seq(Codes), NEW s \in Seq(Codes), NEW a \in 0 .. Len(p),
         Reverse(s) = Slice(p, a, Len(p)), NEW t \in 0 .. Len(p) - a
  PROVE  /\ Len(s) = Len(p) - a
         /\ Popped(s, t) = Slice(p, a, a + t)
         /\ Reverse(Shortened(s, t)) = Slice(p, a + t, Len(p))
         /\ Shortened(s, t) \in Seq(Codes)
<1>1. Len(p) \in Nat /\ Len(p) \in a .. Len(p) /\ a \in Nat
  BY LenProperties, SMT
<1>2. Len(s) = Len(p) - a
  <2>1. Len(Reverse(s)) = Len(s)
    BY CountReverse
  <2>2. Len(Slice(p, a, Len(p))) = Len(p) - a
    BY <1>1, SliceIn
  <2> QED
    BY <2>1, <2>2
<1>3. t \in 0 .. Len(s) /\ Shortened(s, t) \in Seq(Codes)
  BY <1>2, CountTaken
<1>4. Popped(s, t) = Slice(Reverse(s), 0, t) /\ Reverse(Shortened(s, t)) = Slice(Reverse(s), t, Len(s))
  BY <1>3, PoppedFirst DEF Slice
<1>5. /\ 0 \in 0 .. Len(p) - a /\ t \in 0 .. Len(p) - a /\ Len(p) - a \in t .. Len(p) - a
      /\ a + 0 = a /\ a + (Len(p) - a) = Len(p)
  BY <1>1, SMT
<1>6. Slice(Slice(p, a, Len(p)), 0, t) = Slice(p, a + 0, a + t)
  BY <1>1, <1>5, SliceOfSlice
<1>7. Slice(Slice(p, a, Len(p)), t, Len(p) - a) = Slice(p, a + t, a + (Len(p) - a))
  BY <1>1, <1>5, SliceOfSlice
<1> QED
  BY <1>2, <1>3, <1>4, <1>5, <1>6, <1>7, Zenon

-----------------------------------------------------------------------------
(* The braid, round by round.  p and q are the strands, the last character *)
(* first; a round appends a slice of each to the stream.                   *)
Round(i, p, q, s) ==
  /\ Slice(s, Both(i), Both(i) + Fib(i)) = Slice(p, Lefts(i), Lefts(i + 1))
  /\ Slice(s, Both(i) + Fib(i), Both(i + 1)) = Slice(q, Rights(i), Rights(i + 1))

(* Before round i, in its natural course: l and r hold what is left.       *)
Along(i, p, q, l, r, s) ==
  /\ Len(s) = Both(i) /\ Lefts(i) <= Len(p) /\ Rights(i) <= Len(q)
  /\ Reverse(l) = Slice(p, Lefts(i), Len(p)) /\ Reverse(r) = Slice(q, Rights(i), Len(q))
  /\ \A e \in 1 .. i - 1 : Round(e, p, q, s)

(* A whole stream: after round j - 3 what is left of p, then of q.         *)
Carried(j, p, q, s) ==
  /\ Len(s) = Len(p) + Len(q)
  /\ \A e \in 1 .. j - 3 : Round(e, p, q, s)
  /\ Slice(s, Both(j - 2), Len(s))
       = Slice(p, Lefts(j - 2), Len(p)) \o Slice(q, Rights(j - 2), Len(q))

Fitting(j, p, q) ==
  /\ j \in Nat /\ j >= 3 /\ Len(q) <= Len(p)
  /\ {Len(p), Len(q)} \subseteq {Fib(j) - 2, Fib(j) - 1}

LEMMA Regroup ==
  ASSUME NEW s \in Seq(Codes), NEW t \in Seq(Codes), NEW u \in Seq(Codes)
  PROVE  (s \o t) \o u = s \o (t \o u)
BY ConcatAssociative

LEMMA NoneAdded ==
  ASSUME NEW s \in Seq(Codes) PROVE s \o <<>> = s /\ <<>> \o s = s
BY ConcatEmptySeq

LEMMA PortionAll ==
  ASSUME NEW i \in Nat, NEW len \in Nat, Fib(i) <= len PROVE Portion(i, len) = Fib(i)
<1> DEFINE f == Fib(i)
           m == len + 1
<1>1. f \in Nat /\ m \in Nat \ {0} /\ f \in 0 .. m - 1
  BY FibIsNatural
<1> HIDE DEF f, m
<1>2. (m * 0 + f) % m = f
  BY <1>1, ModOf
<1>3. m * 0 + f = f
  BY <1>1
<1> QED
  BY <1>2, <1>3 DEF Portion, f, m

LEMMA TakenAll ==
  ASSUME NEW i \in Nat, NEW s \in Seq(Codes), Fib(i) <= Len(s), Fib(i) # 0
  PROVE  Taken(s, i) = Fib(i)
<1>1. Len(s) \in Nat /\ Fib(i) \in Nat /\ Len(<<>>) = 0
  BY LenProperties, FibIsNatural, EmptySeq
<1>2. s # <<>>
  BY <1>1
<1> QED
  BY <1>1, <1>2, PortionAll DEF Taken

LEMMA RoundKept ==
  ASSUME NEW p, NEW q, NEW s \in Seq(Codes), NEW t \in Seq(Codes), NEW e \in Nat, e # 0,
         Both(e + 1) <= Len(s), Round(e, p, q, s)
  PROVE  Round(e, p, q, s \o t)
<1>1. /\ Fib(e) \in Nat /\ Fib(e + 1) \in Nat /\ Both(e) \in Nat
      /\ Both(e + 1) = (Both(e) + Fib(e)) + Fib(e + 1)
  BY RoundSums
<1>2. Len(s) \in Nat
  BY LenProperties
<1>3. /\ Both(e) \in 0 .. Len(s) /\ Both(e) + Fib(e) \in Both(e) .. Len(s)
      /\ Both(e) + Fib(e) \in 0 .. Len(s) /\ Both(e + 1) \in Both(e) + Fib(e) .. Len(s)
  BY <1>1, <1>2
<1>4. /\ Slice(s \o t, Both(e), Both(e) + Fib(e)) = Slice(s, Both(e), Both(e) + Fib(e))
      /\ Slice(s \o t, Both(e) + Fib(e), Both(e + 1)) = Slice(s, Both(e) + Fib(e), Both(e + 1))
  BY <1>3, SliceOfConcat
<1> QED
  BY <1>4 DEF Round

LEMMA SumsGrow ==
  ASSUME NEW i \in Nat, NEW e \in Nat, i # 0, i <= e
  PROVE  Lefts(i) <= Lefts(e) /\ Rights(i) <= Rights(e) /\ Both(i) <= Both(e)
<1>1. i + 1 \in Nat /\ i + 2 \in Nat /\ e + 1 \in Nat /\ e + 2 \in Nat /\ i + 1 <= e + 1 /\ i + 2 <= e + 2
  OBVIOUS
<1>2. Fib(i + 1) <= Fib(e + 1) /\ Fib(i + 2) <= Fib(e + 2)
  BY <1>1, FibOrder
<1>3. Fib(i + 1) \in Nat /\ Fib(e + 1) \in Nat /\ Fib(i + 2) \in Nat /\ Fib(e + 2) \in Nat
  BY <1>1, FibIsNatural
<1> QED
  BY <1>2, <1>3 DEF Lefts, Rights, Both

(* Where the natural course of a text of good length ends.                 *)
LEMMA Limits ==
  ASSUME NEW p \in Seq(Codes), NEW q \in Seq(Codes), NEW j, Fitting(j, p, q)
  PROVE  /\ j - 2 \in Nat \ {0} /\ Lefts(j - 2) <= Len(p) /\ Rights(j - 2) <= Len(q)
         /\ \/ Len(p) - Lefts(j - 2) = Fib(j - 2)
            \/ Len(p) - Lefts(j - 2) = Fib(j - 2) - 1 /\ Len(q) = Rights(j - 2)
         /\ \/ Len(q) - Rights(j - 2) = 0
            \/ Len(q) - Rights(j - 2) = 1 /\ Fib(j - 1) <= Len(p)
         /\ \/ Fib(j - 2) <= Len(q)
            \/ j = 3 /\ Len(q) = 0 /\ Len(p) \in {0, 1}
<1>1. Len(p) \in Nat /\ Len(q) \in Nat
  BY LenProperties
<1>2. /\ j \in Nat /\ j >= 3 /\ Len(q) <= Len(p)
      /\ Len(p) = Fib(j) - 2 \/ Len(p) = Fib(j) - 1
      /\ Len(q) = Fib(j) - 2 \/ Len(q) = Fib(j) - 1
  BY DEF Fitting
<1>3. /\ j - 2 \in Nat \ {0} /\ j - 1 \in Nat /\ 1 <= j - 2 /\ 2 <= j - 1
      /\ (j - 2) + 2 = j /\ (j - 2) + 1 = j - 1 /\ 1 \in Nat /\ 2 \in Nat /\ 3 \in Nat
  BY <1>2
<1>4. Fib(j) = Fib(j - 1) + Fib(j - 2)
  BY <1>3, FibSum
<1>5. Fib(j) \in Nat /\ Fib(j - 1) \in Nat /\ Fib(j - 2) \in Nat /\ 1 <= Fib(j - 2) /\ 1 <= Fib(j - 1)
  BY <1>2, <1>3, FibIsNatural, FibOrder, FibFirst
<1>6. Lefts(j - 2) = Fib(j - 1) - 1 /\ Rights(j - 2) = Fib(j) - 2
  BY <1>3 DEF Lefts, Rights
<1> DEFINE m == Len(p)
           w == Len(q)
           f == Fib(j)
           g == Fib(j - 1)
           h == Fib(j - 2)
           a == Lefts(j - 2)
           b == Rights(j - 2)
<1>7. /\ m \in Nat /\ w \in Nat /\ w <= m /\ f = g + h /\ f \in Nat /\ g \in Nat /\ h \in Nat
      /\ 1 <= g /\ 1 <= h /\ a = g - 1 /\ b = f - 2
      /\ m = f - 2 \/ m = f - 1
      /\ w = f - 2 \/ w = f - 1
  BY <1>1, <1>2, <1>4, <1>5, <1>6
<1>8. j = 3 => f = 2 /\ g = 1 /\ h = 1
  <2> SUFFICES ASSUME j = 3 PROVE f = 2 /\ g = 1 /\ h = 1
    OBVIOUS
  <2>1. j - 1 = 2 /\ j - 2 = 1
    BY <1>2
  <2> QED
    BY <2>1, FibFirst
<1>9. j # 3 => 2 <= g
  <2> SUFFICES ASSUME j # 3 PROVE 2 <= g
    OBVIOUS
  <2>1. 3 <= j - 1
    BY <1>2
  <2> QED
    BY <1>3, <2>1, FibFirst, FibOrder
<1> HIDE DEF m, w, f, g, h, a, b
<1>10. a <= m /\ b <= w
  BY <1>7
<1>11. m - a = h \/ (m - a = h - 1 /\ w = b)
  BY <1>7
<1>12. w - b = 0 \/ (w - b = 1 /\ g <= m)
  BY <1>7
<1>13. h <= w \/ (j = 3 /\ w = 0 /\ m \in {0, 1})
  <2>1. CASE j = 3
    BY <1>7, <1>8, <2>1
  <2>2. CASE j # 3
    BY <1>7, <1>9, <2>2
  <2> QED
    BY <2>1, <2>2
<1> QED
  BY <1>3, <1>10, <1>11, <1>12, <1>13 DEF m, w, g, h, a, b

(* A round in the natural course. *)
LEMMA AlongRound ==
  ASSUME NEW p \in Seq(Codes), NEW q \in Seq(Codes), NEW l \in Seq(Codes), NEW r \in Seq(Codes),
         NEW s \in Seq(Codes), NEW i \in Nat, i # 0, Along(i, p, q, l, r, s),
         Lefts(i + 1) <= Len(p), Rights(i + 1) <= Len(q)
  PROVE  /\ Taken(l, i) = Fib(i) /\ Taken(r, i + 1) = Fib(i + 1)
         /\ Along(i + 1, p, q, Shortened(l, Fib(i)), Shortened(r, Fib(i + 1)),
                  (s \o Popped(l, Fib(i))) \o Popped(r, Fib(i + 1)))
<1> DEFINE f == Fib(i)
           g == Fib(i + 1)
           a == Lefts(i)
           b == Rights(i)
           x == Popped(l, f)
           y == Popped(r, g)
           t == (s \o x) \o y
<1>1. /\ f \in Nat \ {0} /\ g \in Nat \ {0} /\ a \in Nat /\ b \in Nat /\ Both(i) \in Nat
      /\ Lefts(i + 1) = a + f /\ Rights(i + 1) = b + g /\ Both(i + 1) = (Both(i) + f) + g
  BY RoundSums
<1>2. /\ Len(s) = Both(i) /\ Reverse(l) = Slice(p, a, Len(p)) /\ Reverse(r) = Slice(q, b, Len(q))
      /\ \A e \in 1 .. i - 1 : Round(e, p, q, s)
  BY DEF Along
<1>3. Len(p) \in Nat /\ Len(q) \in Nat /\ Len(s) \in Nat /\ i + 1 \in Nat
  BY LenProperties
<1>4. a + f <= Len(p) /\ b + g <= Len(q)
  BY <1>1
<1> HIDE DEF f, g, a, b
<1>5. /\ a \in 0 .. Len(p) /\ f \in 0 .. Len(p) - a /\ a + f \in a .. Len(p)
      /\ b \in 0 .. Len(q) /\ g \in 0 .. Len(q) - b /\ b + g \in b .. Len(q)
  BY <1>1, <1>3, <1>4
<1>6. /\ Len(l) = Len(p) - a /\ x = Slice(p, a, a + f)
      /\ Reverse(Shortened(l, f)) = Slice(p, a + f, Len(p))
  BY <1>2, <1>5, OnePopped
<1>7. /\ Len(r) = Len(q) - b /\ y = Slice(q, b, b + g)
      /\ Reverse(Shortened(r, g)) = Slice(q, b + g, Len(q))
  BY <1>2, <1>5, OnePopped
<1>8. Taken(l, i) = f /\ Taken(r, i + 1) = g
  <2>1. f <= Len(l) /\ f # 0 /\ g <= Len(r) /\ g # 0
    BY <1>1, <1>5, <1>6, <1>7
  <2> QED
    BY <1>3, <2>1, TakenAll DEF f, g
<1>9. x \in Seq(Codes) /\ Len(x) = f /\ y \in Seq(Codes) /\ Len(y) = g
  <2>1. Slice(p, a, a + f) \in Seq(Codes) /\ Len(Slice(p, a, a + f)) = (a + f) - a
    BY <1>5, SliceIn
  <2>2. Slice(q, b, b + g) \in Seq(Codes) /\ Len(Slice(q, b, b + g)) = (b + g) - b
    BY <1>5, SliceIn
  <2>3. (a + f) - a = f /\ (b + g) - b = g
    BY <1>1
  <2> QED
    BY <1>6, <1>7, <2>1, <2>2, <2>3
<1> HIDE DEF x, y
<1>10. /\ s \o x \in Seq(Codes) /\ Len(s \o x) = Both(i) + f
       /\ Slice(s \o x, Both(i), Both(i) + f) = x
  <2>1. /\ s \o x \in Seq(Codes) /\ Len(s \o x) = Len(s) + Len(x)
        /\ Slice(s \o x, Len(s), Len(s) + Len(x)) = x
    BY <1>9, SliceOfConcat
  <2> QED
    BY <1>2, <1>9, <2>1
<1> DEFINE u == s \o x
<1> HIDE DEF u
<1>11. u \in Seq(Codes) /\ Len(u) = Both(i) + f /\ Slice(u, Both(i), Both(i) + f) = x
  BY <1>10 DEF u
<1>12. /\ u \o y \in Seq(Codes) /\ Len(u \o y) = (Both(i) + f) + g
       /\ Slice(u \o y, Both(i) + f, (Both(i) + f) + g) = y
       /\ Slice(u \o y, Both(i), Both(i) + f) = Slice(u, Both(i), Both(i) + f)
  <2>1. Both(i) \in 0 .. Len(u) /\ Both(i) + f \in Both(i) .. Len(u)
    BY <1>1, <1>11, SMTT(20)
  <2>2. /\ u \o y \in Seq(Codes) /\ Len(u \o y) = Len(u) + Len(y)
        /\ Slice(u \o y, Len(u), Len(u) + Len(y)) = y
        /\ \A c \in 0 .. Len(u) : \A d \in c .. Len(u) : Slice(u \o y, c, d) = Slice(u, c, d)
    BY <1>9, <1>11, SliceOfConcat
  <2> QED
    BY <1>9, <1>11, <2>1, <2>2
<1>13. Round(i, p, q, u \o y)
  <2>1. Slice(u \o y, Both(i), Both(i) + f) = Slice(p, a, Lefts(i + 1))
    BY <1>1, <1>6, <1>11, <1>12
  <2>2. Slice(u \o y, Both(i) + f, Both(i + 1)) = Slice(q, b, Rights(i + 1))
    BY <1>1, <1>7, <1>12
  <2> QED
    BY <2>1, <2>2 DEF Round, f, a, b
<1>14. ASSUME NEW e \in 1 .. i - 1 PROVE Round(e, p, q, u \o y)
  <2>1. e \in Nat /\ e # 0 /\ e + 1 \in Nat /\ e + 1 # 0 /\ e + 1 <= i
    OBVIOUS
  <2>2. Both(e + 1) <= Len(s)
    BY <1>2, <2>1, SumsGrow
  <2>3. Round(e, p, q, u)
    BY <1>2, <1>9, <2>1, <2>2, RoundKept DEF u
  <2>4. Both(e + 1) \in Nat
    BY <2>1, RoundSums
  <2>5. Both(e + 1) <= Len(u)
    <3> DEFINE o == Both(i)
               h == Both(e + 1)
               m == Len(u)
    <3>1. o \in Nat /\ f \in Nat /\ m = o + f
      BY <1>1, <1>11
    <3>2. h <= o /\ h \in Nat
      BY <1>2, <2>2, <2>4
    <3> HIDE DEF o, h, m
    <3>3. h <= m
      BY <3>1, <3>2
    <3> QED
      BY <3>3 DEF h, m
  <2> QED
    BY <1>9, <1>11, <2>1, <2>3, <2>5, RoundKept
<1>15. \A e \in 1 .. (i + 1) - 1 : Round(e, p, q, u \o y)
  <2>1. \A e \in 1 .. (i + 1) - 1 : e = i \/ e \in 1 .. i - 1
    OBVIOUS
  <2> QED
    BY <1>13, <1>14, <2>1
<1>16. Along(i + 1, p, q, Shortened(l, f), Shortened(r, g), u \o y)
  <2>1. Len(u \o y) = Both(i + 1)
    BY <1>1, <1>12
  <2>2. /\ Reverse(Shortened(l, f)) = Slice(p, Lefts(i + 1), Len(p))
        /\ Reverse(Shortened(r, g)) = Slice(q, Rights(i + 1), Len(q))
    BY <1>1, <1>6, <1>7
  <2> QED
    BY <1>15, <2>1, <2>2 DEF Along
<1> QED
  BY <1>8, <1>16, Zenon DEF f, g, u, x, y

(* The course ends: what is on the strands makes the stream whole.         *)
LEMMA AlongEnds ==
  ASSUME NEW p \in Seq(Codes), NEW q \in Seq(Codes), NEW l \in Seq(Codes), NEW r \in Seq(Codes),
         NEW s \in Seq(Codes), NEW j, Fitting(j, p, q), Along(j - 2, p, q, l, r, s)
  PROVE  /\ Carried(j, p, q, (s \o Reverse(l)) \o Reverse(r))
         /\ Len(l) = Fib(j - 2) \/ r = <<>>
<1> DEFINE i == j - 2
           x == Reverse(l)
           y == Reverse(r)
           a == Lefts(i)
           b == Rights(i)
<1>1. /\ i \in Nat \ {0} /\ a <= Len(p) /\ b <= Len(q)
      /\ Len(p) - a = Fib(i) \/ Len(q) = b
      /\ Len(p) \in Nat /\ Len(q) \in Nat
  BY Limits, LenProperties
<1>2. /\ Len(s) = Both(i) /\ x = Slice(p, a, Len(p)) /\ y = Slice(q, b, Len(q))
      /\ \A e \in 1 .. i - 1 : Round(e, p, q, s)
  BY DEF Along
<1>3. a \in Nat /\ b \in Nat /\ Both(i) = a + b
  <2>1. a \in Nat /\ b \in Nat
    BY <1>1, RoundSums
  <2> QED
    BY <2>1 DEF Both
<1>4. j - 3 = i - 1
  BY <1>1 DEF Fitting
<1>5. /\ x \in Seq(Codes) /\ Len(x) = Len(l) /\ y \in Seq(Codes) /\ Len(y) = Len(r)
  BY CountReverse
<1> HIDE DEF i, a, b, x, y
<1>6. a \in 0 .. Len(p) /\ Len(p) \in a .. Len(p) /\ b \in 0 .. Len(q) /\ Len(q) \in b .. Len(q)
  BY <1>1, <1>3
<1>7. Len(x) = Len(p) - a /\ Len(y) = Len(q) - b
  BY <1>2, <1>6, SliceIn, ZenonT(40)
<1>8. Len(l) = Fib(i) \/ r = <<>>
  <2>1. CASE Len(p) - a = Fib(i)
    BY <1>5, <1>7, <2>1
  <2>2. CASE Len(q) = b
    <3>1. Len(r) = 0
      BY <1>1, <1>5, <1>7, <2>2
    <3> QED
      BY <3>1, EmptySeq
  <2> QED
    BY <1>1, <2>1, <2>2
<1> DEFINE w == x \o y
<1>9. w \in Seq(Codes) /\ Len(w) = Len(x) + Len(y)
  BY <1>5, ConcatProperties
<1>10. (s \o x) \o y = s \o w
  BY <1>5, Regroup
<1>11. w = Slice(p, a, Len(p)) \o Slice(q, b, Len(q))
  BY <1>2
<1> HIDE DEF w
<1>12. /\ s \o w \in Seq(Codes) /\ Len(s \o w) = Len(s) + Len(w)
       /\ Slice(s \o w, Len(s), Len(s) + Len(w)) = w
  BY <1>9, SliceOfConcat
<1>13. Len(s \o w) = Len(p) + Len(q)
  BY <1>1, <1>2, <1>3, <1>7, <1>9, <1>12
<1>14. Slice(s \o w, Both(i), Len(s \o w)) = w
  BY <1>2, <1>12
<1>15. \A e \in 1 .. j - 3 : Round(e, p, q, s \o w)
  <2> SUFFICES ASSUME NEW e \in 1 .. i - 1 PROVE Round(e, p, q, s \o w)
    BY <1>4
  <2>1. e \in Nat /\ e # 0 /\ e + 1 \in Nat /\ e + 1 # 0 /\ e + 1 <= i
    BY <1>1
  <2>2. Both(e + 1) <= Len(s)
    BY <1>1, <1>2, <2>1, SumsGrow
  <2> QED
    BY <1>2, <1>9, <2>1, <2>2, RoundKept
<1>16. Carried(j, p, q, s \o w)
  BY <1>11, <1>13, <1>14, <1>15, Zenon DEF Carried, i, a, b
<1> QED
  BY <1>8, <1>10, <1>16, Zenon DEF i, x, y

(* Afterwards a round takes from one strand only, or finishes the left.    *)
LateKeeps(l, r, s, a, b) ==
  /\ Shortened(l, a) = <<>> \/ Shortened(r, b) = <<>>
  /\ (((s \o Popped(l, a)) \o Popped(r, b)) \o Reverse(Shortened(l, a)))
       \o Reverse(Shortened(r, b))
     = (s \o Reverse(l)) \o Reverse(r)

LEMMA LateRound ==
  ASSUME NEW l \in Seq(Codes), NEW r \in Seq(Codes), NEW s \in Seq(Codes),
         NEW a \in 0 .. Len(l), NEW b \in 0 .. Len(r), Shortened(l, a) = <<>> \/ r = <<>>
  PROVE  LateKeeps(l, r, s, a, b)
<1> USE DEF LateKeeps
<1> DEFINE x == Popped(l, a)
           y == Popped(r, b)
           u == Reverse(Shortened(l, a))
           v == Reverse(Shortened(r, b))
<1>1. ASSUME NEW t \in Seq(Codes), NEW d \in 0 .. Len(t)
      PROVE  /\ Popped(t, d) \in Seq(Codes) /\ Reverse(Shortened(t, d)) \in Seq(Codes)
             /\ Popped(t, d) \o Reverse(Shortened(t, d)) = Reverse(t)
  <2>1. Reverse(t) \in Seq(Codes) /\ Len(Reverse(t)) = Len(t) /\ Len(t) \in Nat
    BY CountReverse, LenProperties
  <2>2. Popped(t, d) = Slice(Reverse(t), 0, d) /\ Reverse(Shortened(t, d)) = Slice(Reverse(t), d, Len(t))
    BY PoppedFirst DEF Slice
  <2> DEFINE z == Reverse(t)
  <2> HIDE DEF z
  <2>3. 0 \in 0 .. Len(z) /\ d \in 0 .. Len(z) /\ Len(z) \in d .. Len(z) /\ Len(z) = Len(t)
    BY <2>1 DEF z
  <2>4. z \in Seq(Codes)
    BY <2>1 DEF z
  <2>5. Slice(z, 0, d) \o Slice(z, d, Len(z)) = Slice(z, 0, Len(z)) /\ Slice(z, 0, Len(z)) = z
    <3>1. Slice(z, 0, d) \o Slice(z, d, Len(z)) = Slice(z, 0, Len(z))
      BY <2>3, <2>4, SliceJoin
    <3> QED
      BY <2>4, <3>1, SliceAll
  <2>6. Slice(z, 0, d) \in Seq(Codes) /\ Slice(z, d, Len(z)) \in Seq(Codes)
    BY <2>3, <2>4, SliceIn
  <2> QED
    BY <2>2, <2>3, <2>5, <2>6, Zenon DEF z
<1>2. x \in Seq(Codes) /\ u \in Seq(Codes) /\ x \o u = Reverse(l)
  BY <1>1
<1>3. y \in Seq(Codes) /\ v \in Seq(Codes) /\ y \o v = Reverse(r)
  BY <1>1
<1>4. Reverse(<<>>) = <<>>
  <2>1. <<>> \in Seq(Codes) /\ Len(<<>>) = 0
    BY EmptySeq
  <2>2. Reverse(<<>>) \in Seq(Codes) /\ Len(Reverse(<<>>)) = 0
    BY <2>1, CountReverse
  <2> QED
    BY <2>2, EmptySeq
<1>5. CASE Shortened(l, a) = <<>>
  <2>1. u = <<>>
    BY <1>4, <1>5
  <2> HIDE DEF x, y, u, v
  <2>2. x = Reverse(l)
    BY <1>2, <2>1, NoneAdded, Zenon
  <2>3. s \o x \in Seq(Codes) /\ (s \o x) \o y \in Seq(Codes)
    BY <1>2, <1>3, ConcatProperties
  <2>4. ((s \o x) \o y) \o u = (s \o x) \o y
    BY <2>1, <2>3, NoneAdded, Zenon
  <2>5. ((s \o x) \o y) \o v = (s \o x) \o (y \o v)
    <3> DEFINE sx == s \o x
    <3>1. sx \in Seq(Codes)
      BY <2>3
    <3> HIDE DEF sx
    <3>2. (sx \o y) \o v = sx \o (y \o v)
      BY <1>3, <3>1, Regroup
    <3> QED
      BY <3>2 DEF sx
  <2>6. (((s \o x) \o y) \o u) \o v = (s \o Reverse(l)) \o Reverse(r)
    BY <1>3, <2>2, <2>4, <2>5, Zenon
  <2> QED
    BY <1>5, <2>6 DEF x, y, u, v
<1>6. CASE r = <<>>
  <2>1. Len(r) = 0 /\ b = 0
    <3>1. Len(r) = 0
      BY <1>6, EmptySeq
    <3> QED
      BY <3>1
  <2>2. Shortened(r, b) = <<>>
    BY <1>6, <2>1, SubSeqEmpty DEF Shortened
  <2>3. v = <<>>
    BY <1>4, <2>2
  <2> HIDE DEF x, y, u, v
  <2>4. y = <<>>
    BY <1>3, <1>4, <1>6, <2>3, NoneAdded, Zenon
  <2>5. s \o x \in Seq(Codes) /\ (s \o x) \o u \in Seq(Codes)
    BY <1>2, ConcatProperties
  <2>6. (s \o x) \o y = s \o x /\ ((s \o x) \o u) \o v = (s \o x) \o u
    BY <2>3, <2>4, <2>5, NoneAdded, Zenon
  <2>7. (s \o x) \o u = s \o Reverse(l)
    <3>1. (s \o x) \o u = s \o (x \o u)
      BY <1>2, Regroup
    <3> QED
      BY <1>2, <3>1, Zenon
  <2>8. (((s \o x) \o y) \o u) \o v = (s \o Reverse(l)) \o Reverse(r)
    <3>1. s \o Reverse(l) \in Seq(Codes)
      BY <2>5, <2>7
    <3>2. Reverse(r) = <<>>
      BY <1>4, <1>6
    <3>3. (s \o Reverse(l)) \o Reverse(r) = s \o Reverse(l)
      BY <3>1, <3>2, NoneAdded, Zenon
    <3> QED
      BY <2>6, <2>7, <3>3, Zenon
  <2> QED
    BY <2>2, <2>8 DEF x, y, u, v
<1> QED
  BY <1>5, <1>6

-----------------------------------------------------------------------------
(* The reverse, round by round. *)
LEMMA DealtIs ==
  ASSUME stream \in Seq(Codes), NEW a \in 0 .. Len(stream), NEW b \in a .. Len(stream),
         NEW t \in Nat, a + t = b \/ (a + t >= b /\ b = Len(stream))
  PROVE  Dealt(a, t) = Slice(stream, a, b)
<1>1. Len(stream) \in Nat
  BY LenProperties
<1>2. (IF a + t <= Len(stream) THEN a + t ELSE Len(stream)) = b
  BY <1>1
<1> QED
  BY <1>2 DEF Dealt, Slice

(* The portions that were taken are dealt out ... *)
DealsNext(i, p, q, l, r) ==
  /\ Slice(p, 0, Lefts(i)) \o l = Slice(p, 0, Lefts(i + 1))
  /\ Slice(q, 0, Rights(i)) \o r = Slice(q, 0, Rights(i + 1))
  /\ Both(i) + Len(l) + Len(r) = Both(i + 1)

LEMMA DealAlong ==
  ASSUME stream \in Seq(Codes), NEW p \in Seq(Codes), NEW q \in Seq(Codes), NEW j,
         Fitting(j, p, q), Carried(j, p, q, stream), NEW i \in 1 .. j - 3,
         HalfLeft \in Nat, HalfRight \in Nat, Len(q) <= HalfLeft, Len(p) <= HalfRight,
         NEW l, l = Dealt(Both(i), Portion(i, HalfLeft)),
         NEW r, r = Dealt(Both(i) + Len(l), Portion(i + 1, HalfRight))
  PROVE  DealsNext(i, p, q, l, r)
<1> USE DEF DealsNext
<1> DEFINE f == Fib(i)
           g == Fib(i + 1)
           a == Lefts(i)
           b == Rights(i)
<1>1. /\ i \in Nat /\ i # 0 /\ i + 1 \in Nat /\ i + 1 # 0 /\ i + 1 <= j - 2 /\ j - 2 \in Nat /\ i <= i + 1
      /\ j - 2 # 0
  BY DEF Fitting
<1>2. /\ f \in Nat \ {0} /\ g \in Nat \ {0} /\ a \in Nat /\ b \in Nat /\ Both(i) \in Nat
      /\ Lefts(i + 1) = a + f /\ Rights(i + 1) = b + g /\ Both(i + 1) = (Both(i) + f) + g
      /\ Both(i) = a + b
  BY <1>1, RoundSums DEF Both
<1>3. /\ Lefts(i + 1) <= Lefts(j - 2) /\ Rights(i + 1) <= Rights(j - 2)
      /\ Lefts(j - 2) <= Len(p) /\ Rights(j - 2) <= Len(q)
  BY <1>1, SumsGrow, Limits
<1>4. /\ Len(p) \in Nat /\ Len(q) \in Nat /\ Len(q) <= Len(p)
      /\ Len(stream) = Len(p) + Len(q) /\ Round(i, p, q, stream)
      /\ Lefts(j - 2) \in Nat /\ Rights(j - 2) \in Nat
  BY <1>1, LenProperties, RoundSums DEF Fitting, Carried
<1>5. f <= g
  BY <1>1, FibOrder
<1> HIDE DEF f, g, a, b
<1>6. a + f <= Len(p) /\ b + g <= Len(q) /\ f <= HalfLeft /\ g <= HalfRight
  BY <1>2, <1>3, <1>4, <1>5, SMTT(20)
<1>7. Portion(i, HalfLeft) = f /\ Portion(i + 1, HalfRight) = g
  BY <1>1, <1>6, PortionAll DEF f, g
<1>8. /\ Both(i) \in 0 .. Len(stream) /\ Both(i) + f \in Both(i) .. Len(stream)
      /\ Both(i) + f \in 0 .. Len(stream) /\ (Both(i) + f) + g \in Both(i) + f .. Len(stream)
  BY <1>2, <1>4, <1>6, SMTT(20)
<1>9. l = Slice(stream, Both(i), Both(i) + f)
  BY <1>2, <1>7, <1>8, DealtIs
<1>10. Len(l) = f
  <2>1. Len(l) = (Both(i) + f) - Both(i)
    BY <1>8, <1>9, SliceIn, ZenonT(40)
  <2> QED
    BY <1>2, <2>1
<1>11. r = Slice(stream, Both(i) + f, (Both(i) + f) + g)
  BY <1>2, <1>7, <1>8, <1>10, DealtIs
<1>12. Len(r) = g
  <2>1. Len(r) = ((Both(i) + f) + g) - (Both(i) + f)
    BY <1>8, <1>11, SliceIn, ZenonT(40)
  <2> QED
    BY <1>2, <2>1
<1>13. l = Slice(p, a, a + f) /\ r = Slice(q, b, b + g)
  BY <1>2, <1>4, <1>9, <1>11 DEF Round, f, a, b
<1>14. /\ 0 \in 0 .. Len(p) /\ a \in 0 .. Len(p) /\ a + f \in a .. Len(p)
       /\ 0 \in 0 .. Len(q) /\ b \in 0 .. Len(q) /\ b + g \in b .. Len(q)
  BY <1>2, <1>4, <1>6, SMTT(20)
<1>15. Slice(p, 0, a) \o l = Slice(p, 0, a + f)
  BY <1>13, <1>14, SliceJoin
<1>16. Slice(q, 0, b) \o r = Slice(q, 0, b + g)
  BY <1>13, <1>14, SliceJoin
<1>17. Both(i) + Len(l) + Len(r) = Both(i + 1)
  BY <1>2, <1>10, <1>12
<1> QED
  BY <1>2, <1>15, <1>16, <1>17 DEF a, b

(* ... and the last two rounds' worth of characters in one.                *)
DealsRest(i, p, q, l, r) ==
  /\ Slice(p, 0, Lefts(i)) \o l = p /\ Slice(q, 0, Rights(i)) \o r = q
  /\ Both(i) + Len(l) + Len(r) = Len(stream)

LEMMA DealLast ==
  ASSUME stream \in Seq(Codes), NEW p \in Seq(Codes), NEW q \in Seq(Codes), NEW j,
         Fitting(j, p, q), Carried(j, p, q, stream), NEW i, i = j - 2,
         HalfLeft \in Nat, HalfRight \in Nat, Fib(i) <= HalfLeft, Len(p) <= HalfRight,
         NEW l, l = Dealt(Both(i), Portion(i, HalfLeft)),
         NEW r, r = Dealt(Both(i) + Len(l), Portion(i + 1, HalfRight))
  PROVE  DealsRest(i, p, q, l, r)
<1> USE DEF DealsRest
<1> DEFINE f == Fib(i)
           a == Lefts(i)
           b == Rights(i)
           c == Both(i)
           x == Slice(p, a, Len(p))
           y == Slice(q, b, Len(q))
           m == Len(stream)
           t == Portion(i + 1, HalfRight)
<1>1. /\ i \in Nat /\ i # 0 /\ a <= Len(p) /\ b <= Len(q) /\ j - 1 = i + 1 /\ i + 1 \in Nat
      /\ \/ Len(p) - a = f
         \/ Len(p) - a = f - 1 /\ Len(q) = b
      /\ \/ Len(q) - b = 0
         \/ Len(q) - b = 1 /\ Fib(i + 1) <= Len(p)
  <2>1. j - 1 = i + 1 /\ i \in Nat
    BY DEF Fitting
  <2> QED
    BY <2>1, Limits
<1>2. f \in Nat \ {0} /\ Fib(i + 1) \in Nat \ {0} /\ a \in Nat /\ b \in Nat /\ c = a + b /\ c \in Nat
  BY <1>1, RoundSums DEF Both
<1>3. Len(p) \in Nat /\ Len(q) \in Nat /\ m = Len(p) + Len(q) /\ Slice(stream, c, m) = x \o y
  BY LenProperties DEF Carried
<1>4. Portion(i, HalfLeft) = f /\ t \in Nat /\ (Fib(i + 1) <= HalfRight => t = Fib(i + 1))
  <2>1. t \in 0 .. HalfRight
    BY <1>1, PortionFits
  <2> QED
    BY <1>1, <2>1, PortionAll
<1> DEFINE u == Len(p)
           v == Len(q)
           g == Fib(i + 1)
           top == HalfRight
<1>5. /\ u \in Nat /\ v \in Nat /\ f \in Nat \ {0} /\ g \in Nat \ {0} /\ a \in Nat /\ b \in Nat
      /\ c \in Nat /\ t \in Nat /\ top \in Nat
      /\ c = a + b /\ m = u + v /\ a <= u /\ b <= v /\ u <= top /\ (g <= top => t = g)
      /\ u - a = f \/ (u - a = f - 1 /\ v = b)
      /\ v - b = 0 \/ (v - b = 1 /\ g <= u)
  <2> HIDE DEF f, a, b, c, x, y, m, t
  <2> QED
    BY <1>1, <1>2, <1>3, <1>4
<1>6. 0 \in 0 .. u /\ 0 \in 0 .. v /\ a \in 0 .. u /\ u \in a .. u /\ b \in 0 .. v /\ v \in b .. v
  <2> HIDE DEF f, a, b, c, x, y, m, t, u, v, g, top
  <2> QED
    BY <1>5
<1>7. x \in Seq(Codes) /\ Len(x) = u - a /\ y \in Seq(Codes) /\ Len(y) = v - b
  <2> HIDE DEF a, b
  <2> QED
    BY <1>6, SliceIn, ZenonT(40) DEF x, y
<1> DEFINE e == Len(x)
           w == Len(y)
           d == c + e
<1> HIDE DEF f, a, b, c, x, y, m, t, u, v, g, top, e, w
<1>8. e = u - a /\ w = v - b
  BY <1>7 DEF e, w
<1>9. /\ c \in 0 .. m /\ d \in c .. m /\ d \in 0 .. m /\ m \in d .. m /\ m \in c .. m
      /\ d - c = e /\ m - c = e + w /\ m - d = w /\ e \in Nat /\ w \in Nat /\ m \in Nat
      /\ c + (d - c) = d /\ c + (m - c) = m /\ c + 0 = c /\ 0 \in 0 .. e /\ e \in 0 .. e
      /\ 0 \in 0 .. m - c /\ d - c \in 0 .. m - c /\ m - c \in d - c .. m - c
  BY <1>5, <1>8
<1>10. c + f = d \/ (c + f >= d /\ d = m)
  BY <1>5, <1>8
<1>11. d + t = m \/ (d + t >= m /\ m = m)
  BY <1>5, <1>8
<1> HIDE DEF d
<1> DEFINE z == x \o y
<1>12. z \in Seq(Codes) /\ Slice(z, 0, e) = x /\ Slice(z, e, e + w) = y
  <2>1. /\ z \in Seq(Codes) /\ Slice(z, Len(x), Len(x) + Len(y)) = y
        /\ \A h \in 0 .. Len(x) : \A o \in h .. Len(x) : Slice(z, h, o) = Slice(x, h, o)
    BY <1>7, SliceOfConcat
  <2> HIDE DEF z
  <2>2. Slice(z, 0, e) = Slice(x, 0, e)
    BY <1>9, <2>1 DEF e
  <2>3. Slice(x, 0, e) = x
    BY <1>7, SliceAll DEF e
  <2> QED
    BY <2>1, <2>2, <2>3 DEF e, w
<1>13. Slice(stream, c, m) = z
  BY <1>3
<1> HIDE DEF z
<1>14. l = Slice(stream, c, d)
  <2>1. l = Dealt(c, f)
    BY <1>4 DEF c
  <2>2. f \in Nat
    BY <1>5
  <2> QED
    BY <1>9, <1>10, <2>1, <2>2, DealtIs DEF m
<1>15. \A h \in 0 .. m - c : \A o \in h .. m - c : Slice(z, h, o) = Slice(stream, c + h, c + o)
  BY <1>9, <1>13, SliceOfSlice DEF m
<1>16. l = x
  <2>1. Slice(z, 0, d - c) = Slice(stream, c + 0, c + (d - c))
    BY <1>9, <1>15
  <2> QED
    BY <1>9, <1>12, <1>14, <2>1
<1>17. r = Slice(stream, d, m)
  <2>1. r = Dealt(d, t)
    BY <1>16 DEF d, c, t, e
  <2> QED
    BY <1>5, <1>9, <1>11, <2>1, DealtIs DEF m
<1>18. r = y
  <2>1. Slice(z, d - c, m - c) = Slice(stream, c + (d - c), c + (m - c))
    BY <1>9, <1>15
  <2> QED
    BY <1>9, <1>12, <1>17, <2>1
<1>19. Slice(p, 0, a) \o l = p /\ Slice(q, 0, b) \o r = q
  <2>1. Slice(p, 0, a) \o x = Slice(p, 0, Len(p)) /\ Slice(q, 0, b) \o y = Slice(q, 0, Len(q))
    BY <1>6, SliceJoin DEF x, y, u, v
  <2>2. Slice(p, 0, Len(p)) = p /\ Slice(q, 0, Len(q)) = q
    BY SliceAll
  <2> QED
    BY <1>16, <1>18, <2>1, <2>2
<1>20. c + Len(l) + Len(r) = m
  <2>1. Len(l) = e /\ Len(r) = w
    BY <1>16, <1>18 DEF e, w
  <2>2. c + e + w = m
    BY <1>5, <1>8
  <2> QED
    BY <2>1, <2>2
<1> QED
  BY <1>19, <1>20 DEF a, b, c, m

(* A single character is dealt to the right if the left half is empty.     *)
LEMMA DealSingle ==
  ASSUME stream \in Seq(Codes), NEW p \in Seq(Codes), NEW q \in Seq(Codes),
         Carried(3, p, q, stream), Len(p) = 1, Len(q) = 0,
         HalfLeft = 0, HalfRight \in Nat, Len(p) <= HalfRight,
         NEW l, l = Dealt(0, Portion(1, HalfLeft)),
         NEW r, r = Dealt(0 + Len(l), Portion(1 + 1, HalfRight))
  PROVE  l = <<>> /\ r = p /\ Len(stream) = 1
<1>1. Fib(1) = 1 /\ Fib(2) = 1 /\ 1 + 1 = 2
  BY FibFirst
<1>2. Portion(1, HalfLeft) = 0
  <2>1. Portion(1, 0) = 1 % 1
    BY <1>1 DEF Portion
  <2>2. 1 % 1 = 0
    OBVIOUS
  <2> QED
    BY <2>1, <2>2
<1>3. Portion(1 + 1, HalfRight) = 1
  <2>1. Fib(2) <= HalfRight /\ 2 \in Nat
    BY <1>1
  <2>2. Portion(2, HalfRight) = Fib(2)
    BY <2>1, PortionAll
  <2> QED
    BY <1>1, <2>2
<1>4. Len(stream) = 1 /\ 0 \in 0 .. Len(stream) /\ 0 \in 0 .. 0 /\ 1 \in 0 .. Len(stream)
  BY DEF Carried
<1>5. l = <<>>
  <2>1. 0 + 0 = 0 /\ 0 \in Nat
    OBVIOUS
  <2>2. Dealt(0, 0) = Slice(stream, 0, 0)
    BY <1>4, <2>1, DealtIs
  <2> QED
    BY <1>2, <2>1, <2>2, SliceAll
<1>6. r = stream
  <2>1. 0 + 1 = 1 /\ 1 \in Nat /\ 0 + Len(l) = 0
    BY <1>5, EmptySeq
  <2>2. Dealt(0, 1) = Slice(stream, 0, 1)
    BY <1>4, <2>1, DealtIs
  <2>3. Slice(stream, 0, Len(stream)) = stream
    BY SliceAll
  <2> QED
    BY <1>3, <1>4, <2>1, <2>2, <2>3
<1>7. stream = p
  <2>1. 3 - 2 = 1 /\ Both(1) = 0 /\ Lefts(1) = 0 /\ Rights(1) = 0
    BY FirstSums
  <2>2. Slice(stream, 0, Len(stream)) = Slice(p, 0, Len(p)) \o Slice(q, 0, Len(q))
    BY <2>1 DEF Carried
  <2>3. /\ Slice(stream, 0, Len(stream)) = stream /\ Slice(p, 0, Len(p)) = p
        /\ Slice(q, 0, Len(q)) = q
    BY SliceAll
  <2>4. q = <<>>
    BY EmptySeq
  <2> QED
    BY <2>2, <2>3, <2>4, NoneAdded
<1> QED
  BY <1>4, <1>5, <1>6, <1>7

-----------------------------------------------------------------------------
(* The interleaving puts the strands of a sequence together again.         *)
LEMMA StrandIs ==
  ASSUME NEW s \in Seq(Codes)
  PROVE  /\ Strand(s, 1) \in Seq(Codes) /\ Strand(s, 2) \in Seq(Codes)
         /\ Len(Strand(s, 1)) = Len(s) - Len(s) \div 2 /\ Len(Strand(s, 2)) = Len(s) \div 2
         /\ \A i \in 1 .. Len(Strand(s, 1)) : Strand(s, 1)[i] = s[2 * i - 1]
         /\ \A i \in 1 .. Len(Strand(s, 2)) : Strand(s, 2)[i] = s[2 * i]
<1> DEFINE m == Len(s)
           a == (m - 1) \div 2 + 1
           b == (m - 2) \div 2 + 1
<1>1. m \in Nat /\ \A i \in 1 .. m : s[i] \in Codes
  BY LenProperties, ElementOfSeq
<1>2. /\ Strand(s, 1) = [i \in 1 .. a |-> s[2 * i - 2 + 1]]
      /\ Strand(s, 2) = [i \in 1 .. b |-> s[2 * i - 2 + 2]]
  BY DEF Strand
<1> HIDE DEF m
<1>3. a = m - m \div 2 /\ b = m \div 2 /\ a \in Nat /\ b \in Nat
  BY <1>1, SMT
<1> HIDE DEF a, b
<1>4. /\ \A i \in 1 .. a : 2 * i - 2 + 1 = 2 * i - 1
      /\ \A i \in 1 .. b : 2 * i - 2 + 2 = 2 * i
  BY <1>3
<1>5. Strand(s, 1) \in Seq(Codes) /\ Strand(s, 2) \in Seq(Codes)
  BY CountStrands
<1>6. Len(Strand(s, 1)) = a /\ Len(Strand(s, 2)) = b
  <2>1. ASSUME NEW t \in Seq(Codes), NEW e \in Nat, DOMAIN t = 1 .. e PROVE Len(t) = e
    <3>1. Len(t) \in Nat /\ DOMAIN t = 1 .. Len(t)
      BY LenProperties
    <3>2. 1 .. e = 1 .. Len(t)
      BY <2>1, <3>1
    <3>3. \A i \in Nat : i \in 1 .. e <=> i \in 1 .. Len(t)
      BY <3>2
    <3> DEFINE g == Len(t)
    <3> HIDE DEF g
    <3>4. (e \in 1 .. e => e \in 1 .. g) /\ (g \in 1 .. g => g \in 1 .. e) /\ g \in Nat
      BY <3>1, <3>3 DEF g
    <3>5. e = g
      BY <3>4
    <3> QED
      BY <3>5 DEF g
  <2>2. DOMAIN Strand(s, 1) = 1 .. a /\ DOMAIN Strand(s, 2) = 1 .. b
    BY <1>2
  <2> QED
    BY <1>3, <1>5, <2>1, <2>2
<1>7. /\ \A i \in 1 .. a : Strand(s, 1)[i] = s[2 * i - 1]
      /\ \A i \in 1 .. b : Strand(s, 2)[i] = s[2 * i]
  BY <1>2, <1>4
<1> QED
  BY <1>3, <1>5, <1>6, <1>7 DEF m

LEMMA OneSlice ==
  ASSUME NEW s \in Seq(Codes), NEW i \in 1 .. Len(s)
  PROVE  Slice(s, i - 1, i) = <<s[i]>>
<1>1. Len(s) \in Nat /\ (i - 1) + 1 = i
  BY LenProperties
<1>2. i \in i .. Len(s) /\ i \in Int /\ i - 1 \in Int /\ i - 1 < i
  BY <1>1, SMT
<1>3. SubSeq(s, i, i) = SubSeq(s, i, i - 1) \o <<s[i]>> /\ SubSeq(s, i, i - 1) = <<>>
  BY <1>2, SubSeqRecursiveSecond, SubSeqEmpty
<1>4. <<s[i]>> \in Seq(Codes)
  <2>1. s[i] \in Codes
    BY ElementOfSeq
  <2> HIDE DEF Codes
  <2> QED
    BY <2>1
<1> QED
  BY <1>1, <1>3, <1>4, NoneAdded, Zenon DEF Slice

LEMMA MergedBack ==
  ASSUME NEW s \in Seq(Codes), NEW rounds \in Nat, Len(s) - Len(s) \div 2 <= rounds
  PROVE  Merged(Strand(s, 1), Strand(s, 2), rounds) = s
<1> DEFINE l == Strand(s, 1)
           r == Strand(s, 2)
           m == Len(s)
           Upto(i) == IF 2 * i <= m THEN 2 * i ELSE m
           g == [i \in 0 .. rounds |-> Slice(s, 0, Upto(i))]
<1>1. /\ l \in Seq(Codes) /\ r \in Seq(Codes) /\ Len(l) = m - m \div 2 /\ Len(r) = m \div 2
      /\ \A i \in 1 .. Len(l) : l[i] = s[2 * i - 1]
      /\ \A i \in 1 .. Len(r) : r[i] = s[2 * i]
  BY StrandIs
<1>2. PICK h \in [0 .. rounds -> Seq(Codes)] :
        MergedLoop(h, l, r, rounds) /\ Merged(l, r, rounds) = h[rounds]
  BY <1>1, MergedSteps
<1>3. m \in Nat
  BY LenProperties
<1> HIDE DEF l, r
<1>4. h[0] = <<>> /\ \A i \in 1 .. rounds : h[i] = h[i - 1] \o Opt(l, i) \o Opt(r, i)
  BY <1>2 DEF MergedLoop
<1>5. ASSUME NEW i \in 1 .. rounds
      PROVE  Slice(s, 0, Upto(i - 1)) \o Opt(l, i) \o Opt(r, i) = Slice(s, 0, Upto(i))
  <2> DEFINE a == Slice(s, 0, Upto(i - 1))
  <2>1. /\ i \in 1 .. Len(l) <=> 2 * i - 1 <= m
        /\ i \in 1 .. Len(r) <=> 2 * i <= m
        /\ i <= Len(l) <=> i \in 1 .. Len(l)
        /\ i <= Len(r) <=> i \in 1 .. Len(r)
    BY <1>1, <1>3, SMTT(20)
  <2>2. a \in Seq(Codes)
    <3>1. 0 \in 0 .. m /\ Upto(i - 1) \in 0 .. m
      BY <1>3
    <3> HIDE DEF Upto
    <3> QED
      BY <3>1, SliceIn
  <2>3. CASE 2 * i <= m
    <3>1. 2 * i \in 1 .. m /\ 2 * i - 1 \in 1 .. m /\ (2 * i - 1) - 1 = 2 * (i - 1)
      BY <1>3, <2>3
    <3>2. Opt(l, i) = <<s[2 * i - 1]>> /\ Opt(r, i) = <<s[2 * i]>>
      <4>1. i \in 1 .. Len(l) /\ i <= Len(l) /\ i \in 1 .. Len(r) /\ i <= Len(r)
        BY <2>1, <2>3, <3>1
      <4>2. l[i] = s[2 * i - 1] /\ r[i] = s[2 * i]
        BY <1>1, <4>1
      <4> QED
        BY <4>1, <4>2, Zenon DEF Opt
    <3>3. /\ Slice(s, 2 * (i - 1), 2 * i - 1) = <<s[2 * i - 1]>>
          /\ Slice(s, 2 * i - 1, 2 * i) = <<s[2 * i]>>
      BY <3>1, OneSlice
    <3>4. Upto(i - 1) = 2 * (i - 1) /\ Upto(i) = 2 * i
      BY <1>3, <2>3
    <3> HIDE DEF a, Upto
    <3> DEFINE x == 2 * (i - 1)
               y == 2 * i - 1
               z == 2 * i
    <3>5. 0 \in 0 .. m /\ x \in 0 .. m /\ y \in x .. m /\ z \in y .. m /\ y \in 0 .. m
      BY <1>3, <2>3
    <3> HIDE DEF x, y, z
    <3>6. a \o Slice(s, x, y) = Slice(s, 0, y)
      BY <3>4, <3>5, SliceJoin DEF a, x
    <3>7. Slice(s, 0, y) \o Slice(s, y, z) = Slice(s, 0, z)
      BY <3>5, SliceJoin
    <3> QED
      BY <3>2, <3>3, <3>4, <3>6, <3>7 DEF x, y, z, a
  <2>4. CASE 2 * i - 1 = m
    <3>1. m \in 1 .. m /\ m - 1 = 2 * (i - 1) /\ ~(2 * i <= m)
      BY <1>3, <2>4
    <3>2. Opt(l, i) = <<s[m]>> /\ Opt(r, i) = <<>>
      BY <1>1, <1>3, <2>1, <2>4, <3>1 DEF Opt
    <3>3. Slice(s, m - 1, m) = <<s[m]>>
      BY <3>1, OneSlice
    <3>4. Upto(i - 1) = m - 1 /\ Upto(i) = m
      BY <1>3, <2>4
    <3> HIDE DEF a, Upto
    <3>5. 0 \in 0 .. m /\ m - 1 \in 0 .. m /\ m \in m - 1 .. m /\ m \in 0 .. m
      BY <1>3, <3>1
    <3>6. a \o Slice(s, m - 1, m) = Slice(s, 0, m)
      BY <3>4, <3>5, SliceJoin DEF a
    <3>7. Slice(s, 0, m) \in Seq(Codes)
      BY <3>5, SliceIn
    <3>8. Slice(s, 0, m) \o <<>> = Slice(s, 0, m)
      BY <3>7, NoneAdded
    <3> QED
      BY <3>2, <3>3, <3>4, <3>6, <3>8 DEF a
  <2>5. CASE m < 2 * i - 1
    <3>1. Opt(l, i) = <<>> /\ Opt(r, i) = <<>>
      BY <1>3, <2>1, <2>5 DEF Opt
    <3>2. Upto(i - 1) = m /\ Upto(i) = m
      BY <1>3, <2>5
    <3> HIDE DEF Upto, a
    <3>3. a \o <<>> = a
      BY <2>2, NoneAdded
    <3> QED
      BY <3>1, <3>2, <3>3 DEF a
  <2>6. 2 * i <= m \/ 2 * i - 1 = m \/ m < 2 * i - 1
    <3> HIDE DEF m
    <3> QED
      BY <1>3
  <2> HIDE DEF Upto, m
  <2> QED
    BY <2>3, <2>4, <2>5, <2>6
<1>6. h[0] = g[0]
  <2>1. 0 \in 0 .. rounds /\ Upto(0) = 0 /\ 0 \in Nat
    BY <1>3
  <2> HIDE DEF Upto
  <2> QED
    BY <1>4, <2>1, SliceAll
<1>7. ASSUME NEW i \in 1 .. rounds, h[i - 1] = g[i - 1] PROVE h[i] = g[i]
  <2>1. i \in 0 .. rounds /\ i - 1 \in 0 .. rounds
    OBVIOUS
  <2> HIDE DEF Upto
  <2>2. g[i] = Slice(s, 0, Upto(i)) /\ g[i - 1] = Slice(s, 0, Upto(i - 1))
    BY <2>1
  <2> HIDE DEF g
  <2> QED
    BY <1>4, <1>5, <1>7, <2>2, Zenon
<1> HIDE DEF g
<1>8. Parallel(h, g, rounds)
  BY <1>6, <1>7 DEF Parallel
<1>9. \A i \in 0 .. rounds : h[i] = g[i]
  BY <1>8, SameRecursion
<1>10. rounds \in 0 .. rounds /\ Upto(rounds) = m
  <2>1. m <= 2 * rounds
    BY <1>3
  <2> QED
    BY <1>3, <2>1, SMTT(20)
<1> HIDE DEF Upto
<1>11. g[rounds] = Slice(s, 0, m)
  BY <1>10 DEF g
<1> QED
  BY <1>2, <1>9, <1>10, <1>11, SliceAll DEF l, r

LEMMA MergedNone ==
  ASSUME NEW r \in Seq(Codes), NEW rounds \in Nat
  PROVE  Merged(<<>>, r, rounds) = Merged(r, <<>>, rounds)
<1>1. <<>> \in Seq(Codes) /\ Len(<<>>) = 0
  BY EmptySeq
<1> DEFINE R == Seq(Codes)
<1>2. PICK f \in [0 .. rounds -> R] :
        MergedLoop(f, <<>>, r, rounds) /\ Merged(<<>>, r, rounds) = f[rounds]
  BY <1>1, MergedSteps
<1>3. PICK g \in [0 .. rounds -> R] :
        MergedLoop(g, r, <<>>, rounds) /\ Merged(r, <<>>, rounds) = g[rounds]
  BY <1>1, MergedSteps
<1>4. /\ f[0] = <<>> /\ \A i \in 1 .. rounds : f[i] = f[i - 1] \o Opt(<<>>, i) \o Opt(r, i)
      /\ g[0] = <<>> /\ \A i \in 1 .. rounds : g[i] = g[i - 1] \o Opt(r, i) \o Opt(<<>>, i)
  BY <1>2, <1>3 DEF MergedLoop
<1>5. ASSUME NEW i \in 1 .. rounds, f[i - 1] = g[i - 1] PROVE f[i] = g[i]
  <2> DEFINE a == f[i - 1]
             b == Opt(r, i)
  <2>1. i \in Nat \ {0} /\ i - 1 \in 0 .. rounds /\ ~(i <= 0)
    OBVIOUS
  <2>2. Opt(<<>>, i) = <<>>
    BY <1>1, <2>1 DEF Opt
  <2>3. a \in Seq(Codes) /\ b \in Seq(Codes)
    BY <1>2, <2>1, CountOpt
  <2>4. f[i] = (a \o <<>>) \o b /\ g[i] = (a \o b) \o <<>>
    BY <1>4, <1>5, <2>2
  <2> HIDE DEF a, b
  <2>5. a \o <<>> = a /\ a \o b \in Seq(Codes)
    BY <2>3, NoneAdded, ConcatProperties
  <2>6. (a \o b) \o <<>> = a \o b
    BY <2>5, NoneAdded
  <2> QED
    BY <2>4, <2>5, <2>6
<1> HIDE DEF R
<1>6. Parallel(f, g, rounds)
  BY <1>4, <1>5 DEF Parallel
<1>7. \A i \in 0 .. rounds : f[i] = g[i]
  BY <1>6, SameRecursion
<1>8. rounds \in 0 .. rounds
  OBVIOUS
<1> QED
  BY <1>2, <1>3, <1>7, <1>8

-----------------------------------------------------------------------------
(* Shifting there and back. *)
LEMMA ShiftedBack ==
  ASSUME variant \in Variants, kappa \in Nat, NEW c \in Codes \ Surrogates
  PROVE  Shifted(Shifted(c, kappa), -kappa) = IF Misread(c) THEN c - kappa ELSE c
<1>1. CodeSize \in Nat \ {0} /\ variant \in {"python", "lossless", "lossy"} /\ c \in 0 .. CodeSize - 1
  BY CodeAssumption, VariantAssumption DEF Codes
<1>2. CASE variant = "python"
  <2> DEFINE d == (c + kappa) % CodeSize
  <2>1. d \in 0 .. CodeSize - 1
    BY <1>1, SMT
  <2>2. c = (d - kappa) % CodeSize
    <3>1. kappa \in Int
      OBVIOUS
    <3> QED
      BY <1>1, <2>1, <3>1, ShiftBack
  <2>3. d - kappa = d + (-kappa)
    BY <2>1
  <2>4. Shifted(c, kappa) = d /\ Shifted(d, -kappa) = (d + (-kappa)) % CodeSize
    BY <1>2 DEF Shifted
  <2>5. ~ Misread(c)
    BY <1>2 DEF Misread
  <2> HIDE DEF d
  <2> QED
    BY <2>2, <2>3, <2>4, <2>5
<1>3. CASE variant = "lossless"
  <2>1. (c + kappa) + (-kappa) = c /\ c + (-kappa) = c - kappa
    BY <1>1
  <2>2. \A x, e : Shifted(x, e) = IF x + e \in Codes \ Surrogates THEN x + e ELSE x
    BY <1>3 DEF Shifted
  <2>3. Misread(c) <=> c + kappa \notin Codes \ Surrogates /\ c - kappa \in Codes \ Surrogates
    BY <1>3 DEF Misread
  <2>4. CASE c + kappa \in Codes \ Surrogates
    BY <2>1, <2>2, <2>3, <2>4, Zenon
  <2>5. CASE c + kappa \notin Codes \ Surrogates
    BY <2>1, <2>2, <2>3, <2>5, Zenon
  <2> QED
    BY <2>4, <2>5
<1>4. CASE variant = "lossy"
  BY <1>4 DEF Shifted, Misread
<1> QED
  BY <1>1, <1>2, <1>3, <1>4

LEMMA LegibleBack ==
  ASSUME Typed PROVE Each(Each(text, kappa), -kappa) = Legible
<1> DEFINE s == Each(text, kappa)
           u == Each(s, -kappa)
<1>1. variant \in Variants /\ text \in Seq(Codes \ Surrogates) /\ kappa \in Nat
  BY CodeAssumption DEF Typed
<1>2. text \in Seq(Codes) /\ kappa \in Int /\ -kappa \in Int
  BY CallType
<1>3. s \in Seq(Codes) /\ Len(s) = Len(text) /\ \A i \in 1 .. Len(text) : s[i] = Shifted(text[i], kappa)
  BY <1>1, <1>2, EachType
<1> HIDE DEF s
<1>4. u = [i \in 1 .. Len(text) |-> Shifted(s[i], -kappa)]
  BY <1>3 DEF Each
<1>5. \A i \in 1 .. Len(text) : text[i] \in Codes \ Surrogates
  BY <1>1, ElementOfSeq
<1>6. ASSUME NEW i \in 1 .. Len(text)
      PROVE  Shifted(s[i], -kappa) = IF Misread(text[i]) THEN text[i] - kappa ELSE text[i]
  <2> DEFINE c == text[i]
  <2>1. c \in Codes \ Surrogates /\ s[i] = Shifted(c, kappa)
    BY <1>3, <1>5
  <2> HIDE DEF c
  <2>2. Shifted(Shifted(c, kappa), -kappa) = IF Misread(c) THEN c - kappa ELSE c
    BY <1>1, <2>1, ShiftedBack
  <2> QED
    BY <2>1, <2>2, Zenon DEF c
<1> HIDE DEF u
<1>7. u = Legible
  BY <1>4, <1>6, Zenon DEF Legible
<1> QED
  BY <1>7 DEF u, s

-----------------------------------------------------------------------------
(* Texts that the filter lets pass.                                        *)
LEMMA KeptIn ==
  ASSUME NEW s \in Seq(Kept)
  PROVE  s \in Seq(Codes)
<1>1. Kept \subseteq Codes
  BY DEF Kept
<1> QED
  BY <1>1, SeqMonotonic

LEMMA ReverseIn ==
  ASSUME NEW S, NEW s \in Seq(S)
  PROVE  Reverse(s) \in Seq(S)
<1> DEFINE m == Len(s)
<1>1. m \in Nat /\ \A i \in 1 .. m : s[i] \in S
  BY LenProperties, ElementOfSeq
<1>2. Reverse(s) = [i \in 1 .. m |-> s[(m - i) + 1]]
  BY DEF Reverse
<1> HIDE DEF m
<1>3. \A i \in 1 .. m : (m - i) + 1 \in 1 .. m
  BY <1>1
<1>4. [i \in 1 .. m |-> s[(m - i) + 1]] \in [1 .. m -> S]
  BY <1>1, <1>3
<1> QED
  BY <1>1, <1>2, <1>4, IsASeq

LEMMA PartsKept ==
  ASSUME NEW s \in Seq(Kept), NEW e \in 0 .. Len(s)
  PROVE  Popped(s, e) \in Seq(Kept) /\ Shortened(s, e) \in Seq(Kept)
<1> DEFINE m == Len(s)
           a == m - e
<1>1. m \in Nat
  BY LenProperties
<1>2. 0 \in 0 .. m /\ a \in 0 .. m /\ m \in a .. m
  BY <1>1
<1> HIDE DEF a
<1>3. Slice(s, 0, a) \in Seq(Kept) /\ Slice(s, a, m) \in Seq(Kept)
  BY <1>2, SliceIn
<1>4. Shortened(s, e) = Slice(s, 0, a) /\ Popped(s, e) = Reverse(Slice(s, a, m))
  BY DEF Shortened, Popped, Slice, a
<1> QED
  BY <1>3, <1>4, ReverseIn

LEMMA FilterKeeps ==
  ASSUME NEW s \in Seq(Kept) PROVE Filtered(s) = s
<1>1. s \in Seq(Codes)
  BY KeptIn
<1>2. CASE variant # "lossy"
  BY <1>2 DEF Filtered
<1>3. CASE variant = "lossy"
  <2> DEFINE R == Seq(Codes \ Forbidden)
             m == Len(s)
             g == [i \in 0 .. m |-> Slice(s, 0, i)]
  <2>1. PICK h \in [0 .. m -> R] : AllowedLoop(h, s) /\ Allowed(s) = h[m]
    BY <1>1, AllowedSteps
  <2>2. m \in Nat
    BY LenProperties
  <2>3. h[0] = <<>> /\ \A i \in 1 .. m : h[i] = IF s[i] \in Forbidden THEN h[i - 1] ELSE Append(h[i - 1], s[i])
    BY <2>1 DEF AllowedLoop
  <2>4. \A i \in 1 .. m : s[i] \in Codes /\ s[i] \notin Forbidden
    BY <1>3, ElementOfSeq DEF Kept
  <2>5. ASSUME NEW i \in 1 .. m PROVE Append(Slice(s, 0, i - 1), s[i]) = Slice(s, 0, i)
    <3>1. /\ 0 \in 0 .. m /\ i - 1 \in 0 .. m /\ i \in i - 1 .. m
      BY <2>2
    <3>2. Slice(s, 0, i - 1) \in Seq(Codes) /\ s[i] \in Codes
      BY <1>1, <2>4, <3>1, SliceIn
    <3>3. Append(Slice(s, 0, i - 1), s[i]) = Slice(s, 0, i - 1) \o <<s[i]>>
      BY <3>2, AppendIsConcat
    <3>4. Slice(s, i - 1, i) = <<s[i]>>
      BY <1>1, OneSlice
    <3>5. Slice(s, 0, i - 1) \o Slice(s, i - 1, i) = Slice(s, 0, i)
      BY <1>1, <3>1, SliceJoin
    <3> QED
      BY <3>3, <3>4, <3>5
  <2> HIDE DEF R, m
  <2>6. h[0] = g[0]
    <3>1. 0 \in 0 .. m /\ 0 \in Nat
      BY <2>2
    <3> QED
      BY <1>1, <2>3, <3>1, SliceAll
  <2>7. ASSUME NEW i \in 1 .. m, h[i - 1] = g[i - 1] PROVE h[i] = g[i]
    <3>1. i \in 0 .. m /\ i - 1 \in 0 .. m
      BY <2>2
    <3>2. g[i] = Slice(s, 0, i) /\ g[i - 1] = Slice(s, 0, i - 1)
      BY <3>1
    <3> HIDE DEF g
    <3> QED
      BY <2>3, <2>4, <2>5, <2>7, <3>2, Zenon
  <2> HIDE DEF g
  <2>8. Parallel(h, g, m)
    BY <2>6, <2>7 DEF Parallel
  <2>9. \A i \in 0 .. m : h[i] = g[i]
    BY <2>2, <2>8, SameRecursion
  <2>10. h[m] = Slice(s, 0, m)
    <3>1. m \in 0 .. m
      BY <2>2
    <3> QED
      BY <2>9, <3>1 DEF g
  <2> QED
    BY <1>1, <1>3, <2>1, <2>10, SliceAll DEF Filtered, m
<1> QED
  BY <1>2, <1>3

-----------------------------------------------------------------------------
(* The course of the braid.                                                *)
Weaving(j, p, q, l, r, s, i) ==
  \/ i \in 1 .. j - 2 /\ Along(i, p, q, l, r, s)
  \/ /\ i > j - 2 /\ (l = <<>> \/ r = <<>>)
     /\ Carried(j, p, q, (s \o Reverse(l)) \o Reverse(r))

LEMMA WeavingStarts ==
  ASSUME NEW l \in Seq(Codes), NEW r \in Seq(Codes), NEW j, Fitting(j, Reverse(l), Reverse(r))
  PROVE  Weaving(j, Reverse(l), Reverse(r), l, r, <<>>, 1)
<1> DEFINE p == Reverse(l)
           q == Reverse(r)
<1>1. p \in Seq(Codes) /\ q \in Seq(Codes)
  BY ReverseIn
<1>2. 1 \in 1 .. j - 2 /\ ~(\E e \in 1 .. 1 - 1 : TRUE)
  BY DEF Fitting
<1> HIDE DEF p, q
<1>3. Len(p) \in Nat /\ Len(q) \in Nat
  BY <1>1, LenProperties
<1>4. Lefts(1) = 0 /\ Rights(1) = 0 /\ Both(1) = 0 /\ Len(<<>>) = 0
  BY FirstSums, EmptySeq
<1>5. p = Slice(p, 0, Len(p)) /\ q = Slice(q, 0, Len(q))
  BY <1>1, SliceAll
<1>6. p = Reverse(l) /\ q = Reverse(r)
  BY DEF p, q
<1>7. Along(1, p, q, l, r, <<>>)
  BY <1>2, <1>3, <1>4, <1>5, <1>6 DEF Along
<1> QED
  BY <1>2, <1>7 DEF Weaving, p, q

LEMMA WeavingGoesOn ==
  ASSUME NEW p \in Seq(Codes), NEW q \in Seq(Codes), NEW j, Fitting(j, p, q),
         NEW l \in Seq(Codes), NEW r \in Seq(Codes), NEW s \in Seq(Codes), NEW i \in Nat,
         Weaving(j, p, q, l, r, s, i)
  PROVE  Weaving(j, p, q, Shortened(l, Taken(l, i)), Shortened(r, Taken(r, i + 1)),
                 (s \o Popped(l, Taken(l, i))) \o Popped(r, Taken(r, i + 1)), i + 1)
<1> DEFINE a == Taken(l, i)
           b == Taken(r, i + 1)
           x == Shortened(l, a)
           y == Shortened(r, b)
           t == (s \o Popped(l, a)) \o Popped(r, b)
<1>1. /\ j \in Nat /\ j >= 3 /\ i + 1 \in Nat /\ j - 2 \in Nat \ {0}
      /\ Lefts(j - 2) <= Len(p) /\ Rights(j - 2) <= Len(q)
  <2>1. j \in Nat /\ j >= 3
    BY DEF Fitting
  <2> QED
    BY <2>1, Limits
<1>2. a \in 0 .. Len(l) /\ b \in 0 .. Len(r)
  BY <1>1, TakenFits
<1>3. ASSUME NEW o \in Nat, o # 0, o <= j - 3, o = i, Along(i, p, q, l, r, s)
      PROVE  i + 1 \in 1 .. j - 2 /\ Along(i + 1, p, q, x, y, t)
  <2>1. i + 1 \in 1 .. j - 2 /\ i + 1 <= j - 2 /\ i + 1 # 0 /\ i # 0
    BY <1>1, <1>3
  <2>2. /\ Lefts(i + 1) <= Lefts(j - 2) /\ Rights(i + 1) <= Rights(j - 2)
    BY <1>1, <2>1, SumsGrow
  <2>3. /\ Lefts(i + 1) \in Nat /\ Rights(i + 1) \in Nat /\ Lefts(j - 2) \in Nat /\ Rights(j - 2) \in Nat
        /\ Len(p) \in Nat /\ Len(q) \in Nat
    BY <1>1, <2>1, RoundSums, LenProperties
  <2>4. Lefts(i + 1) <= Len(p) /\ Rights(i + 1) <= Len(q)
    BY <1>1, <2>2, <2>3
  <2>5. /\ a = Fib(i) /\ b = Fib(i + 1)
        /\ Along(i + 1, p, q, Shortened(l, Fib(i)), Shortened(r, Fib(i + 1)),
                 (s \o Popped(l, Fib(i))) \o Popped(r, Fib(i + 1)))
    BY <1>3, <2>1, <2>4, AlongRound
  <2> HIDE DEF a, b
  <2> QED
    BY <2>1, <2>5
<1>4. ASSUME x = <<>> \/ r = <<>>, Carried(j, p, q, (s \o Reverse(l)) \o Reverse(r))
      PROVE  (x = <<>> \/ y = <<>>) /\ Carried(j, p, q, (t \o Reverse(x)) \o Reverse(y))
  <2> HIDE DEF a, b
  <2>1. /\ x = <<>> \/ y = <<>>
        /\ (t \o Reverse(x)) \o Reverse(y) = (s \o Reverse(l)) \o Reverse(r)
    <3>1. LateKeeps(l, r, s, a, b)
      BY <1>2, <1>4, LateRound
    <3> QED
      BY <3>1 DEF LateKeeps
  <2> QED
    BY <1>4, <2>1
<1>5. ASSUME i = j - 2, Along(i, p, q, l, r, s)
      PROVE  (x = <<>> \/ r = <<>>) /\ Carried(j, p, q, (s \o Reverse(l)) \o Reverse(r))
  <2>1. /\ Carried(j, p, q, (s \o Reverse(l)) \o Reverse(r))
        /\ Len(l) = Fib(i) \/ r = <<>>
    BY <1>5, AlongEnds
  <2>2. ASSUME Len(l) = Fib(i) PROVE x = <<>>
    <3>1. Fib(i) \in Nat \ {0}
      BY <1>1, <1>5, RoundSums
    <3>2. a = Len(l)
      <4>1. Fib(i) <= Len(l) /\ Fib(i) # 0
        BY <2>2, <3>1
      <4> QED
        BY <2>2, <4>1, TakenAll
    <3>3. Len(l) - Len(l) = 0
      BY <2>2, <3>1
    <3>4. x = SubSeq(l, 1, 0)
      BY <3>2, <3>3 DEF Shortened
    <3> QED
      BY <3>4, SubSeqEmpty
  <2> QED
    BY <2>1, <2>2
<1> HIDE DEF a, b, x, y, t
<1>6. CASE i \in 1 .. j - 3 /\ Along(i, p, q, l, r, s)
  <2>1. i # 0 /\ i <= j - 3
    BY <1>1, <1>6
  <2> QED
    BY <1>3, <1>6, <2>1 DEF Weaving, a, b, x, y, t
<1>7. CASE i = j - 2 /\ Along(i, p, q, l, r, s)
  <2>1. i + 1 > j - 2
    BY <1>1, <1>7
  <2>2. (x = <<>> \/ y = <<>>) /\ Carried(j, p, q, (t \o Reverse(x)) \o Reverse(y))
    BY <1>4, <1>5, <1>7
  <2> QED
    BY <2>1, <2>2 DEF Weaving, a, b, x, y, t
<1>8. CASE /\ i > j - 2 /\ (l = <<>> \/ r = <<>>)
           /\ Carried(j, p, q, (s \o Reverse(l)) \o Reverse(r))
  <2>1. i + 1 > j - 2
    BY <1>1, <1>8
  <2>2. l = <<>> => x = <<>>
    <3>1. ASSUME l = <<>> PROVE a = 0 /\ Len(l) = 0
      BY <3>1, EmptySeq DEF Taken, a
    <3>2. ASSUME l = <<>> PROVE x = SubSeq(l, 1, 0)
      BY <3>1, <3>2 DEF Shortened, x
    <3> QED
      BY <3>2, SubSeqEmpty
  <2>3. (x = <<>> \/ y = <<>>) /\ Carried(j, p, q, (t \o Reverse(x)) \o Reverse(y))
    BY <1>4, <1>8, <2>2
  <2> QED
    BY <2>1, <2>3 DEF Weaving, a, b, x, y, t
<1>9. i \in 1 .. j - 2 <=> i \in 1 .. j - 3 \/ i = j - 2
  BY <1>1
<1> QED
  BY <1>6, <1>7, <1>8, <1>9 DEF Weaving

LEMMA WeavingEnds ==
  ASSUME NEW p \in Seq(Codes), NEW q \in Seq(Codes), NEW j, Fitting(j, p, q),
         NEW s \in Seq(Codes), NEW i, Weaving(j, p, q, <<>>, <<>>, s, i)
  PROVE  Carried(j, p, q, s)
<1>1. <<>> \in Seq(Codes) /\ Reverse(<<>>) = <<>> /\ Len(<<>>) = 0
  <2>1. <<>> \in Seq(Codes) /\ Len(<<>>) = 0
    BY EmptySeq
  <2>2. Reverse(<<>>) \in Seq(Codes) /\ Len(Reverse(<<>>)) = Len(<<>>)
    BY <2>1, CountReverse
  <2> QED
    BY <2>1, <2>2, EmptySeq
<1>2. (s \o Reverse(<<>>)) \o Reverse(<<>>) = s
  BY <1>1, NoneAdded
<1>3. ASSUME i \in 1 .. j - 2, Along(i, p, q, <<>>, <<>>, s) PROVE i = j - 2
  <2> DEFINE u == Len(p)
             v == Len(q)
             a == Lefts(i)
             b == Rights(i)
             c == Lefts(j - 2)
             d == Rights(j - 2)
             g == Fib(j - 2)
  <2>1. i \in Nat /\ i # 0 /\ j - 2 \in Nat \ {0} /\ i <= j - 2 /\ j \in Nat
    BY <1>3 DEF Fitting
  <2>2. u \in Nat /\ v \in Nat /\ a <= u /\ b <= v /\ c <= u /\ d <= v /\ a \in Nat /\ b \in Nat
        /\ c \in Nat /\ d \in Nat
    BY <1>3, <2>1, LenProperties, RoundSums, Limits DEF Along
  <2>3. <<>> = Slice(p, a, u) /\ <<>> = Slice(q, b, v)
    BY <1>1, <1>3 DEF Along
  <2>4. a \in 0 .. u /\ u \in a .. u /\ b \in 0 .. v /\ v \in b .. v
    <3> HIDE DEF a, b, u, v, c, d
    <3> QED
      BY <2>2
  <2>5. Len(Slice(p, a, u)) = u - a /\ Len(Slice(q, b, v)) = v - b
    <3> HIDE DEF a, b
    <3> QED
      BY <2>4, SliceIn
  <2>6. 0 = u - a /\ 0 = v - b
    BY <1>1, <2>3, <2>5
  <2>7. ASSUME i # j - 2 PROVE FALSE
    <3>1. i + 1 \in Nat /\ i + 1 # 0 /\ i + 1 <= j - 2
      BY <2>1, <2>7
    <3>2. Rights(i + 1) <= d /\ Rights(i + 1) = b + Fib(i + 1) /\ Fib(i + 1) \in Nat \ {0}
      BY <2>1, <3>1, SumsGrow, RoundSums
    <3> DEFINE f == Fib(i + 1)
               e == Rights(i + 1)
    <3> HIDE DEF a, b, u, v, c, d, f, e
    <3>3. e <= d /\ e = b + f /\ f \in Nat \ {0}
      BY <3>2 DEF e, f
    <3> QED
      BY <2>2, <2>6, <3>3
  <2> QED
    BY <2>7
<1>4. ASSUME i = j - 2, Along(i, p, q, <<>>, <<>>, s) PROVE Carried(j, p, q, s)
  <2>1. Carried(j, p, q, (s \o Reverse(<<>>)) \o Reverse(<<>>))
    BY <1>1, <1>4, AlongEnds
  <2> QED
    BY <1>2, <2>1
<1> QED
  BY <1>2, <1>3, <1>4 DEF Weaving

-----------------------------------------------------------------------------
(* The course of the reverse. *)
Dealing(j, p, q, l, r, i, c) ==
  \/ i \in 1 .. j - 2 /\ l = Slice(p, 0, Lefts(i)) /\ r = Slice(q, 0, Rights(i)) /\ c = Both(i)
  \/ c = Len(stream) /\ l = p /\ r = q
  \/ c = Len(stream) /\ Len(p) = 1 /\ l = <<>> /\ r = p /\ q = <<>>

LEMMA DealingStarts ==
  ASSUME NEW p \in Seq(Codes), NEW q \in Seq(Codes), NEW j, Fitting(j, p, q)
  PROVE  Dealing(j, p, q, <<>>, <<>>, 1, 0)
<1>1. 1 \in 1 .. j - 2
  BY DEF Fitting
<1>2. Lefts(1) = 0 /\ Rights(1) = 0 /\ Both(1) = 0 /\ 0 \in Nat
  BY FirstSums
<1>3. Slice(p, 0, 0) = <<>> /\ Slice(q, 0, 0) = <<>>
  BY <1>2, SliceAll
<1> QED
  BY <1>1, <1>2, <1>3 DEF Dealing

LEMMA DealingGoesOn ==
  ASSUME stream \in Seq(Codes), NEW p \in Seq(Codes), NEW q \in Seq(Codes), NEW j,
         Fitting(j, p, q), Carried(j, p, q, stream),
         HalfLeft \in Nat, HalfRight \in Nat, Len(q) <= HalfLeft, Len(p) <= HalfRight,
         NEW l, NEW r, NEW i, NEW c \in Nat, Dealing(j, p, q, l, r, i, c), c < Len(stream),
         NEW x, x = Dealt(c, Portion(i, HalfLeft)),
         NEW y, y = Dealt(c + Len(x), Portion(i + 1, HalfRight))
  PROVE  Dealing(j, p, q, l \o x, r \o y, i + 1, c + Len(x) + Len(y))
<1>1. j \in Nat /\ j >= 3 /\ Len(stream) \in Nat /\ Len(p) \in Nat /\ Len(q) \in Nat
  BY LenProperties DEF Fitting
<1>2. i \in 1 .. j - 2 /\ l = Slice(p, 0, Lefts(i)) /\ r = Slice(q, 0, Rights(i)) /\ c = Both(i)
  <2>1. c # Len(stream)
    BY <1>1
  <2> QED
    BY <2>1 DEF Dealing
<1>3. CASE i # j - 2
  <2>1. i \in 1 .. j - 3 /\ i + 1 \in 1 .. j - 2
    BY <1>1, <1>2, <1>3
  <2>2. x = Dealt(Both(i), Portion(i, HalfLeft)) /\ y = Dealt(Both(i) + Len(x), Portion(i + 1, HalfRight))
    BY <1>2
  <2>3. /\ Slice(p, 0, Lefts(i)) \o x = Slice(p, 0, Lefts(i + 1))
        /\ Slice(q, 0, Rights(i)) \o y = Slice(q, 0, Rights(i + 1))
        /\ Both(i) + Len(x) + Len(y) = Both(i + 1)
    <3>1. DealsNext(i, p, q, x, y)
      BY <2>1, <2>2, DealAlong
    <3> QED
      BY <3>1 DEF DealsNext
  <2> QED
    BY <1>2, <2>1, <2>3 DEF Dealing
<1>4. CASE i = j - 2 /\ Fib(i) <= HalfLeft
  <2>1. x = Dealt(Both(i), Portion(i, HalfLeft)) /\ y = Dealt(Both(i) + Len(x), Portion(i + 1, HalfRight))
    BY <1>2
  <2>2. /\ Slice(p, 0, Lefts(i)) \o x = p /\ Slice(q, 0, Rights(i)) \o y = q
        /\ Both(i) + Len(x) + Len(y) = Len(stream)
    <3>1. DealsRest(i, p, q, x, y)
      BY <1>4, <2>1, DealLast
    <3> QED
      BY <3>1 DEF DealsRest
  <2> QED
    BY <1>2, <2>2 DEF Dealing
<1>5. CASE i = j - 2 /\ ~(Fib(i) <= HalfLeft)
  <2>1. Fib(i) \in Nat
    BY <1>2, FibIsNatural
  <2>2. ~(Fib(j - 2) <= Len(q))
    BY <1>1, <1>5, <2>1
  <2>3. j = 3 /\ Len(q) = 0 /\ Len(p) \in {0, 1}
    BY <2>2, Limits
  <2>4. i = 1 /\ c = 0 /\ Fib(1) = 1 /\ Lefts(1) = 0 /\ Rights(1) = 0
    BY <1>2, <1>5, <2>3, FirstSums, FibFirst
  <2>5. Len(stream) = Len(p) + Len(q)
    BY DEF Carried
  <2>6. Len(p) = 1 /\ HalfLeft = 0
    BY <1>1, <1>5, <2>3, <2>4, <2>5
  <2>7. x = <<>> /\ y = p /\ Len(stream) = 1
    BY <2>3, <2>4, <2>6, DealSingle
  <2>8. q = <<>> /\ l = <<>> /\ r = <<>>
    <3>1. \A t \in Seq(Codes) : Slice(t, 0, 0) = <<>>
      <4>1. 0 \in Nat
        OBVIOUS
      <4> QED
        BY <4>1, SliceAll
    <3>2. l = Slice(p, 0, 0) /\ r = Slice(q, 0, 0)
      BY <1>2, <2>4
    <3>3. q = <<>>
      BY <2>3, EmptySeq
    <3> QED
      BY <3>1, <3>2, <3>3
  <2>9. l \o x = <<>> /\ r \o y = p
    <3>1. <<>> \in Seq(Codes)
      BY EmptySeq
    <3> QED
      BY <2>7, <2>8, <3>1, NoneAdded
  <2>10. c + Len(x) + Len(y) = Len(stream)
    <3>1. Len(x) = 0 /\ Len(y) = 1
      BY <2>6, <2>7, EmptySeq
    <3> DEFINE a == Len(x)
               b == Len(y)
               m == Len(stream)
    <3>2. a = 0 /\ b = 1 /\ c = 0 /\ m = 1
      BY <2>4, <2>7, <3>1
    <3> HIDE DEF a, b, m
    <3>3. c + a + b = m
      BY <3>2
    <3> QED
      BY <3>3 DEF a, b, m
  <2> QED
    BY <2>6, <2>8, <2>9, <2>10 DEF Dealing
<1> QED
  BY <1>3, <1>4, <1>5

LEMMA DealingEnds ==
  ASSUME stream \in Seq(Codes), NEW p \in Seq(Codes), NEW q \in Seq(Codes), NEW j,
         Fitting(j, p, q), Carried(j, p, q, stream),
         NEW l, NEW r, NEW i, NEW c \in Nat, Dealing(j, p, q, l, r, i, c), c >= Len(stream)
  PROVE  (l = p /\ r = q) \/ (Len(p) = 1 /\ q = <<>> /\ l = <<>> /\ r = p)
<1>1. CASE i \in 1 .. j - 2 /\ l = Slice(p, 0, Lefts(i)) /\ r = Slice(q, 0, Rights(i)) /\ c = Both(i)
  <2> DEFINE u == Len(p)
             v == Len(q)
             a == Lefts(i)
             b == Rights(i)
             d == Lefts(j - 2)
             e == Rights(j - 2)
  <2>1. i \in Nat /\ i # 0 /\ j - 2 \in Nat /\ j - 2 # 0 /\ i <= j - 2
    BY <1>1 DEF Fitting
  <2>2. /\ u \in Nat /\ v \in Nat /\ a \in Nat /\ b \in Nat /\ d \in Nat /\ e \in Nat
        /\ a <= d /\ b <= e /\ d <= u /\ e <= v /\ Len(stream) = u + v /\ c = a + b
    BY <1>1, <2>1, LenProperties, RoundSums, SumsGrow, Limits DEF Both, Carried
  <2> HIDE DEF u, v, a, b, d, e
  <2>3. a = u /\ b = v
    BY <2>2
  <2>4. Slice(p, 0, u) = p /\ Slice(q, 0, v) = q
    BY SliceAll DEF u, v
  <2>5. l = Slice(p, 0, a) /\ r = Slice(q, 0, b)
    BY <1>1 DEF a, b
  <2> QED
    BY <2>3, <2>4, <2>5
<1> QED
  BY <1>1 DEF Dealing

-----------------------------------------------------------------------------
(* What was dealt out is interleaved.                                      *)
FromLeft == Reverse(Strand(Each(text, kappa), 1))
FromRight == Reverse(Strand(Each(text, kappa), 2))

LEMMA FromStrands ==
  ASSUME Typed
  PROVE  /\ Each(text, kappa) \in Seq(Codes) /\ Len(Each(text, kappa)) = Len(text)
         /\ FromLeft \in Seq(Codes) /\ FromRight \in Seq(Codes) /\ Len(text) \in Nat
         /\ Len(FromLeft) = Len(text) - Len(text) \div 2 /\ Len(FromRight) = Len(text) \div 2
         /\ Len(FromRight) <= HalfLeft /\ Len(FromLeft) <= HalfRight
         /\ Strand(Each(text, kappa), 1) = Reverse(FromLeft)
         /\ Strand(Each(text, kappa), 2) = Reverse(FromRight)
<1> DEFINE s == Each(text, kappa)
           a == Strand(s, 1)
           b == Strand(s, 2)
           m == Len(text)
           o == OriginalLen
<1>1. variant \in Variants /\ text \in Seq(Codes) /\ kappa \in Int /\ m \in Nat
  BY CallType, LenProperties DEF Typed
<1>2. s \in Seq(Codes) /\ Len(s) = m
  BY <1>1, EachType
<1> HIDE DEF s
<1>3. /\ a \in Seq(Codes) /\ b \in Seq(Codes)
      /\ Len(a) = Len(s) - Len(s) \div 2 /\ Len(b) = Len(s) \div 2
  BY <1>2, StrandIs
<1> HIDE DEF a, b
<1>4. /\ FromLeft = Reverse(a) /\ FromRight = Reverse(b)
      /\ Reverse(a) \in Seq(Codes) /\ Reverse(b) \in Seq(Codes)
      /\ Len(Reverse(a)) = Len(a) /\ Len(Reverse(b)) = Len(b)
      /\ Reverse(Reverse(a)) = a /\ Reverse(Reverse(b)) = b
  <2>1. FromLeft = Reverse(a) /\ FromRight = Reverse(b)
    BY DEF FromLeft, FromRight, a, b, s
  <2> QED
    BY <1>3, <2>1, CountReverse, ReverseTwice
<1>5. o \in Nat /\ m <= o
  <2>1. ByteLen(text) \in Nat /\ ByteLen(text) >= m
    BY BytesAssumption DEF Typed
  <2> HIDE DEF m
  <2>2. OriginalLen = m \/ OriginalLen = ByteLen(text)
    BY DEF OriginalLen, m
  <2> QED
    BY <1>1, <2>1, <2>2
<1>6. HalfLeft = o \div 2 /\ HalfRight = o - (o \div 2)
  BY DEF HalfLeft, HalfRight
<1> HIDE DEF o, m
<1>7. m \div 2 <= o \div 2 /\ m - m \div 2 <= o - (o \div 2)
  BY <1>1, <1>5, SMT
<1> QED
  BY <1>1, <1>2, <1>3, <1>4, <1>6, <1>7 DEF m, s, a, b

LEMMA DealtGoBack ==
  ASSUME Typed, NEW l, NEW r,
         (l = FromLeft /\ r = FromRight)
           \/ (Len(FromLeft) = 1 /\ FromRight = <<>> /\ l = <<>> /\ r = FromLeft)
  PROVE  Interleaved(Reverse(l), Reverse(r)) = Each(text, kappa)
<1> DEFINE s == Each(text, kappa)
           p == FromLeft
           q == FromRight
           a == Strand(s, 1)
           b == Strand(s, 2)
           m == Rounds(Reverse(l), Reverse(r))
<1>1. /\ s \in Seq(Codes) /\ Len(s) = Len(text) /\ Len(text) \in Nat
      /\ p \in Seq(Codes) /\ q \in Seq(Codes)
      /\ Len(p) = Len(s) - Len(s) \div 2 /\ Len(q) = Len(s) \div 2
      /\ Len(q) <= HalfLeft /\ Len(p) <= HalfRight /\ Reverse(p) = a /\ Reverse(q) = b
      /\ HalfLeft \in Nat /\ HalfRight \in Nat
  BY FromStrands, HalvesCover
<1>2. a \in Seq(Codes) /\ b \in Seq(Codes) /\ Len(a) = Len(p) /\ Len(b) = Len(q)
  BY <1>1, StrandIs
<1> HIDE DEF s, p, q, a, b
<1>3. Reverse(<<>>) = <<>>
  <2>1. <<>> \in Seq(Codes) /\ Len(<<>>) = 0
    BY EmptySeq
  <2>2. Reverse(<<>>) \in Seq(Codes) /\ Len(Reverse(<<>>)) = Len(<<>>)
    BY <2>1, CountReverse
  <2> QED
    BY <2>1, <2>2, EmptySeq
<1>4. Interleaved(Reverse(l), Reverse(r)) = Merged(Reverse(l), Reverse(r), m)
  BY DEF Interleaved
<1>5. ASSUME NEW x \in Seq(Codes), NEW y \in Seq(Codes), Len(p) <= Len(x) \/ Len(p) <= Len(y)
      PROVE  Rounds(x, y) \in Nat /\ Len(p) <= Rounds(x, y)
  <2> DEFINE u == Len(x)
             v == Len(y)
             w == Len(p)
             h == HalfLeft
             g == HalfRight
  <2>1. u \in Nat /\ v \in Nat /\ w \in Nat /\ h \in Nat /\ g \in Nat /\ w <= g /\ (w <= u \/ w <= v)
    BY <1>1, <1>5, LenProperties
  <2>2. Rounds(x, y) = (IF h > g THEN h ELSE g) \/ Rounds(x, y) = (IF u > v THEN u ELSE v)
    BY DEF Rounds, Larger
  <2> HIDE DEF u, v, w, h, g
  <2>3. Rounds(x, y) \in Nat /\ w <= Rounds(x, y)
    BY <2>1, <2>2
  <2> QED
    BY <2>3 DEF w
<1>6. CASE l = p /\ r = q
  <2>1. m = Rounds(a, b) /\ Len(p) <= Len(a)
    BY <1>1, <1>2, <1>6, LenProperties
  <2>2. m \in Nat /\ Len(s) - Len(s) \div 2 <= m
    BY <1>1, <1>2, <1>5, <2>1
  <2> HIDE DEF m
  <2>3. Merged(a, b, m) = s
    BY <1>1, <2>2, MergedBack DEF a, b
  <2> QED
    BY <1>1, <1>4, <1>6, <2>3 DEF s
<1>7. CASE Len(p) = 1 /\ q = <<>> /\ l = <<>> /\ r = p
  <2>1. Reverse(l) = <<>> /\ Reverse(r) = a /\ <<>> \in Seq(Codes) /\ Len(p) <= Len(a) /\ b = <<>>
    BY <1>1, <1>2, <1>3, <1>7, EmptySeq
  <2>2. m = Rounds(<<>>, a)
    BY <2>1
  <2>3. m \in Nat /\ Len(s) - Len(s) \div 2 <= m
    BY <1>1, <1>2, <1>5, <2>1, <2>2
  <2> HIDE DEF m
  <2>4. Merged(<<>>, a, m) = Merged(a, <<>>, m)
    BY <1>2, <2>3, MergedNone
  <2>5. Merged(a, b, m) = s
    BY <1>1, <2>3, MergedBack DEF a, b
  <2> QED
    BY <1>4, <2>1, <2>4, <2>5 DEF s
<1> QED
  BY <1>6, <1>7 DEF p, q

-----------------------------------------------------------------------------
(* Every text of good length that the filter lets pass takes this course.  *)
Course(j) ==
  /\ phase = "braid" =>
       /\ left \in Seq(Kept) /\ right \in Seq(Kept)
       /\ Weaving(j, FromLeft, FromRight, left, right, stream, n)
  /\ phase = "unbraid" =>
       /\ Carried(j, FromLeft, FromRight, stream)
       /\ Dealing(j, FromLeft, FromRight, left, right, n, cursor)
  /\ phase = "done" => restored = Legible /\ (variant = "python" => outcome = "text")

CourseInv == Whole => \A j : Fitting(j, FromLeft, FromRight) => Course(j)

LEMMA GoodFits ==
  ASSUME Typed, GoodLength PROVE \E j : Fitting(j, FromLeft, FromRight)
<1> DEFINE m == Len(text)
<1>1. m \in Nat /\ Len(FromLeft) = m - m \div 2 /\ Len(FromRight) = m \div 2
  BY FromStrands
<1>2. PICK j \in 3 .. m + 3 : {m \div 2, m - m \div 2} \subseteq {Fib(j) - 2, Fib(j) - 1}
  BY DEF GoodLength
<1> HIDE DEF m
<1>3. j \in Nat /\ j >= 3 /\ m \div 2 <= m - m \div 2
  BY <1>1
<1>4. {Len(FromLeft), Len(FromRight)} \subseteq {Fib(j) - 2, Fib(j) - 1}
  BY <1>1, <1>2
<1> QED
  BY <1>1, <1>3, <1>4 DEF Fitting

LEMMA SameCall ==
  ASSUME UNCHANGED <<variant, text, kappa>>
  PROVE  FromLeft' = FromLeft /\ FromRight' = FromRight /\ Whole' = Whole /\ Legible' = Legible
BY DEF FromLeft, FromRight, Each, Shifted, Whole, Legible, Misread

LEMMA CourseInit == PipelineInit => CourseInv
<1> SUFFICES ASSUME PipelineInit, Whole, NEW j, Fitting(j, FromLeft, FromRight) PROVE Course(j)
  BY DEF CourseInv
<1>1. Typed
  BY BraidInit DEF BraidInv
<1>2. /\ phase = "braid" /\ n = 1 /\ stream = <<>>
      /\ left = Strand(Each(text, kappa), 1) /\ right = Strand(Each(text, kappa), 2)
  BY DEF PipelineInit, Init
<1> DEFINE s == Each(text, kappa)
           m == Len(s)
<1>3. s \in Seq(Kept)
  <2>1. variant \in Variants /\ text \in Seq(Codes) /\ kappa \in Int
    BY <1>1, CallType DEF Typed
  <2>2. s \in Seq(Codes) /\ Len(s) = Len(text) /\ \A i \in 1 .. Len(text) : s[i] = Shifted(text[i], kappa)
    BY <2>1, EachType
  <2>3. m \in Nat /\ \A i \in 1 .. m : s[i] \in Codes
    BY <2>2, LenProperties, ElementOfSeq
  <2>4. ASSUME NEW i \in 1 .. Len(text) PROVE s[i] \in Kept
    <3>1. s[i] \in Codes /\ s[i] = Shifted(text[i], kappa)
      BY <2>2, <2>3, <2>4
    <3> HIDE DEF s
    <3>2. variant = "lossy" => s[i] \notin Forbidden
      BY <2>4, <3>1 DEF Whole, Shifted
    <3> QED
      BY <3>1, <3>2 DEF Kept
  <2>5. s = [i \in 1 .. Len(text) |-> Shifted(text[i], kappa)]
    BY DEF Each
  <2>6. s \in [1 .. Len(text) -> Kept]
    <3>1. ASSUME NEW i \in 1 .. Len(text) PROVE Shifted(text[i], kappa) \in Kept
      BY <2>2, <2>4
    <3> QED
      BY <2>5, <3>1
  <2>7. Len(text) \in Nat
    BY <2>1, LenProperties
  <2> HIDE DEF s
  <2> QED
    BY <2>6, <2>7, IsASeq
<1>4. s \in Seq(Codes) /\ m \in Nat /\ \A i \in 1 .. m : s[i] \in Kept
  BY <1>3, KeptIn, LenProperties, ElementOfSeq
<1>5. ASSUME NEW t \in Seq(Codes), \A i \in 1 .. Len(t) : t[i] \in Kept PROVE t \in Seq(Kept)
  <2>1. Len(t) \in Nat /\ t \in [1 .. Len(t) -> Codes]
    BY LenProperties
  <2>2. t \in [1 .. Len(t) -> Kept]
    BY <1>5, <2>1
  <2> QED
    BY <2>1, <2>2, IsASeq
<1>6. left \in Seq(Codes) /\ right \in Seq(Codes) /\ left \in Seq(Kept) /\ right \in Seq(Kept)
  <2> HIDE DEF s, m
  <2>1. /\ left \in Seq(Codes) /\ right \in Seq(Codes)
        /\ Len(left) = m - m \div 2 /\ Len(right) = m \div 2
        /\ \A i \in 1 .. Len(left) : left[i] = s[2 * i - 1]
        /\ \A i \in 1 .. Len(right) : right[i] = s[2 * i]
    BY <1>2, <1>4, StrandIs DEF s, m
  <2>2. \A i \in 1 .. m - m \div 2 : 2 * i - 1 \in 1 .. m
    BY <1>4, SMT
  <2>3. \A i \in 1 .. m \div 2 : 2 * i \in 1 .. m
    BY <1>4, SMT
  <2>4. \A i \in 1 .. Len(left) : left[i] \in Kept
    BY <1>4, <2>1, <2>2
  <2>5. \A i \in 1 .. Len(right) : right[i] \in Kept
    BY <1>4, <2>1, <2>3
  <2> QED
    BY <1>5, <2>1, <2>4, <2>5
<1>7. FromLeft = Reverse(left) /\ FromRight = Reverse(right)
  BY <1>2 DEF FromLeft, FromRight
<1>8. Weaving(j, FromLeft, FromRight, left, right, stream, n)
  BY <1>2, <1>6, <1>7, WeavingStarts
<1> QED
  BY <1>2, <1>6, <1>8 DEF Course

LEMMA BraidRoundCourse ==
  ASSUME BraidInv, CourseInv, BraidRound PROVE CourseInv'
<1>1. UNCHANGED <<variant, text, kappa>> /\ phase = "braid" /\ phase' = "braid"
  BY DEF BraidRound
<1>2. /\ FromLeft' = FromLeft /\ FromRight' = FromRight /\ Whole' = Whole
      /\ Each(text, kappa)' = Each(text, kappa) /\ Kept' = Kept
  BY <1>1, SameCall, CallStays
<1> SUFFICES ASSUME Whole, NEW j, Fitting(j, FromLeft, FromRight) PROVE Course(j)'
  BY <1>2 DEF CourseInv, Fitting
<1> DEFINE a == Taken(left, n)
           b == Taken(right, n + 1)
<1>3. /\ left \in Seq(Kept) /\ right \in Seq(Kept) /\ Weaving(j, FromLeft, FromRight, left, right, stream, n)
  BY <1>1 DEF CourseInv, Course
<1>4. /\ left \in Seq(Codes) /\ right \in Seq(Codes) /\ stream \in Seq(Codes) /\ n \in Nat /\ n + 1 \in Nat
      /\ FromLeft \in Seq(Codes) /\ FromRight \in Seq(Codes)
  BY FromStrands DEF BraidInv, Typed
<1>5. a \in 0 .. Len(left) /\ b \in 0 .. Len(right)
  BY <1>4, TakenFits
<1>6. Weaving(j, FromLeft, FromRight, Shortened(left, a), Shortened(right, b),
              (stream \o Popped(left, a)) \o Popped(right, b), n + 1)
  BY <1>3, <1>4, WeavingGoesOn
<1>7. /\ left' = Shortened(left, a) /\ right' = Shortened(right, b) /\ n' = n + 1
      /\ stream' = (stream \o Filtered(Popped(left, a))) \o Filtered(Popped(right, b))
  BY DEF BraidRound, NextRound
<1> HIDE DEF a, b
<1>8. /\ Popped(left, a) \in Seq(Kept) /\ Shortened(left, a) \in Seq(Kept)
      /\ Popped(right, b) \in Seq(Kept) /\ Shortened(right, b) \in Seq(Kept)
  BY <1>3, <1>5, PartsKept
<1>9. Filtered(Popped(left, a)) = Popped(left, a) /\ Filtered(Popped(right, b)) = Popped(right, b)
  BY <1>8, FilterKeeps
<1>10. Weaving(j, FromLeft', FromRight', left', right', stream', n')
  BY <1>2, <1>6, <1>7, <1>9, Zenon
<1>11. left' \in Seq(Kept') /\ right' \in Seq(Kept')
  BY <1>2, <1>7, <1>8
<1> QED
  BY <1>1, <1>10, <1>11 DEF Course

LEMMA EndBraidCourse ==
  ASSUME BraidInv, CourseInv, EndBraid PROVE CourseInv'
<1>1. /\ UNCHANGED <<variant, text, kappa, left, right, stream, cursor>>
      /\ phase = "braid" /\ phase' = "unbraid" /\ left = <<>> /\ right = <<>> /\ n' = 1
  BY DEF EndBraid
<1>2. FromLeft' = FromLeft /\ FromRight' = FromRight /\ Whole' = Whole
  BY <1>1, SameCall
<1> SUFFICES ASSUME Whole, NEW j, Fitting(j, FromLeft, FromRight) PROVE Course(j)'
  BY <1>2 DEF CourseInv, Fitting
<1>3. cursor = 0 /\ stream \in Seq(Codes) /\ FromLeft \in Seq(Codes) /\ FromRight \in Seq(Codes)
  BY <1>1, FromStrands DEF BraidInv, Typed, Braided
<1>4. Weaving(j, FromLeft, FromRight, <<>>, <<>>, stream, n)
  BY <1>1 DEF CourseInv, Course
<1>5. Carried(j, FromLeft, FromRight, stream)
  BY <1>3, <1>4, WeavingEnds
<1>6. Dealing(j, FromLeft, FromRight, <<>>, <<>>, 1, 0)
  BY <1>3, DealingStarts
<1>7. Carried(j, FromLeft', FromRight', stream')
  BY <1>1, <1>2, <1>5
<1>8. Dealing(j, FromLeft, FromRight, left, right, n, cursor)'
  BY <1>1, <1>2, <1>3, <1>6 DEF Dealing
<1> QED
  BY <1>1, <1>7, <1>8 DEF Course

LEMMA UnbraidRoundCourse ==
  ASSUME BraidInv, CourseInv, UnbraidRound PROVE CourseInv'
<1> DEFINE x == Dealt(cursor, Portion(n, HalfLeft))
           y == Dealt(cursor + Len(x), Portion(n + 1, HalfRight))
<1>1. /\ UNCHANGED <<variant, text, kappa, stream>>
      /\ phase = "unbraid" /\ phase' = "unbraid" /\ cursor < Len(stream)
      /\ left' = left \o x /\ right' = right \o y /\ n' = n + 1
      /\ cursor' = cursor + Len(x) + Len(y)
  BY DEF UnbraidRound, NextRound
<1>2. FromLeft' = FromLeft /\ FromRight' = FromRight /\ Whole' = Whole
  BY <1>1, SameCall
<1> HIDE DEF x
<1> SUFFICES ASSUME Whole, NEW j, Fitting(j, FromLeft, FromRight) PROVE Course(j)'
  BY <1>2 DEF CourseInv, Fitting
<1>3. /\ Carried(j, FromLeft, FromRight, stream)
      /\ Dealing(j, FromLeft, FromRight, left, right, n, cursor)
  BY <1>1 DEF CourseInv, Course
<1>4. /\ stream \in Seq(Codes) /\ cursor \in Nat /\ n \in Nat
      /\ FromLeft \in Seq(Codes) /\ FromRight \in Seq(Codes)
      /\ Len(FromRight) <= HalfLeft /\ Len(FromLeft) <= HalfRight
      /\ HalfLeft \in Nat /\ HalfRight \in Nat
  BY FromStrands, HalvesCover DEF BraidInv, Typed
<1>5. x = Dealt(cursor, Portion(n, HalfLeft)) /\ y = Dealt(cursor + Len(x), Portion(n + 1, HalfRight))
  BY DEF x
<1> HIDE DEF y
<1>6. Dealing(j, FromLeft, FromRight, left \o x, right \o y, n + 1, cursor + Len(x) + Len(y))
  BY <1>1, <1>3, <1>4, <1>5, DealingGoesOn
<1>7. Carried(j, FromLeft', FromRight', stream')
  BY <1>1, <1>2, <1>3
<1>8. Dealing(j, FromLeft, FromRight, left, right, n, cursor)'
  BY <1>1, <1>2, <1>6 DEF Dealing
<1> QED
  BY <1>1, <1>7, <1>8 DEF Course

LEMMA RestoreCourse ==
  ASSUME BraidInv, CourseInv, Restore PROVE CourseInv'
<1>1. /\ UNCHANGED <<variant, text, kappa>>
      /\ phase = "unbraid" /\ phase' = "done" /\ cursor >= Len(stream)
      /\ restored' = Each(Interleaved(Reverse(left), Reverse(right)), -kappa)
      /\ outcome' = IF variant = "python" THEN IF restored' = text THEN "text" ELSE "corrupted" ELSE outcome
  BY DEF Restore, EndUnbraid, Verdict
<1>2. FromLeft' = FromLeft /\ FromRight' = FromRight /\ Whole' = Whole /\ Legible' = Legible
  BY <1>1, SameCall
<1> SUFFICES ASSUME Whole, NEW j, Fitting(j, FromLeft, FromRight) PROVE Course(j)'
  BY <1>2 DEF CourseInv, Fitting
<1>3. /\ Carried(j, FromLeft, FromRight, stream)
      /\ Dealing(j, FromLeft, FromRight, left, right, n, cursor)
  BY <1>1 DEF CourseInv, Course
<1>4. /\ stream \in Seq(Codes) /\ cursor \in Nat /\ Typed
      /\ FromLeft \in Seq(Codes) /\ FromRight \in Seq(Codes)
  BY FromStrands DEF BraidInv, Typed
<1>5. \/ left = FromLeft /\ right = FromRight
      \/ Len(FromLeft) = 1 /\ FromRight = <<>> /\ left = <<>> /\ right = FromLeft
  BY <1>1, <1>3, <1>4, DealingEnds
<1>6. Interleaved(Reverse(left), Reverse(right)) = Each(text, kappa)
  BY <1>4, <1>5, DealtGoBack
<1>7. restored' = Legible
  BY <1>1, <1>4, <1>6, LegibleBack
<1>8. ASSUME variant = "python" PROVE outcome' = "text"
  <2>1. \A i \in 1 .. Len(text) : ~ Misread(text[i])
    BY <1>8 DEF Misread
  <2>2. Legible = [i \in 1 .. Len(text) |-> text[i]]
    BY <2>1 DEF Legible
  <2>3. text \in Seq(Codes)
    BY <1>4, CallType
  <2>4. Legible = text
    BY <2>2, <2>3, LenProperties
  <2> QED
    BY <1>1, <1>7, <1>8, <2>4
<1> QED
  BY <1>1, <1>2, <1>7, <1>8 DEF Course

LEMMA CourseKept ==
  ASSUME CourseInv, UNCHANGED vars,
         outcome' = outcome \/ phase # "done" \/ (variant = "python" => outcome # "text")
  PROVE  CourseInv'
<1>1. UNCHANGED <<variant, text, kappa, phase, left, right, stream, cursor, n, restored>>
  BY DEF vars
<1>2. FromLeft' = FromLeft /\ FromRight' = FromRight /\ Whole' = Whole /\ Legible' = Legible /\ Kept' = Kept
  BY <1>1, SameCall, CallStays
<1> SUFFICES ASSUME Whole, NEW j, Fitting(j, FromLeft, FromRight) PROVE Course(j)'
  BY <1>2 DEF CourseInv, Fitting
<1>3. Course(j)
  BY DEF CourseInv
<1>4. ASSUME phase = "braid"
      PROVE  left' \in Seq(Kept') /\ right' \in Seq(Kept') /\ Weaving(j, FromLeft', FromRight', left', right', stream', n')
  BY <1>1, <1>2, <1>3, <1>4 DEF Course
<1>5. ASSUME phase = "unbraid"
      PROVE  Carried(j, FromLeft', FromRight', stream') /\ Dealing(j, FromLeft, FromRight, left, right, n, cursor)'
  BY <1>1, <1>2, <1>3, <1>5 DEF Course, Dealing
<1>6. ASSUME phase = "done"
      PROVE  restored' = Legible' /\ (variant' = "python" => outcome' = "text")
  BY <1>1, <1>2, <1>3, <1>6 DEF Course
<1> QED
  BY <1>1, <1>4, <1>5, <1>6 DEF Course

LEMMA CourseStep ==
  ASSUME BraidInv, CourseInv, [Next]_<<vars, pipeline>> PROVE CourseInv'
<1>1. CASE Braiding
  BY <1>1, BraidRoundCourse, EndBraidCourse DEF Braiding
<1>2. CASE Reversing
  BY <1>2, UnbraidRoundCourse DEF Reversing
<1>3. CASE Restore
  BY <1>3, RestoreCourse
<1>4. CASE Seal \/ Collect \/ Refuse \/ Open
  <2>1. UNCHANGED vars /\ outcome \in {"sealing", "sealed"}
    BY <1>4 DEF Seal, Collect, Refuse, Open
  <2>2. outcome' = outcome \/ phase # "done" \/ (variant = "python" => outcome # "text")
    BY <2>1
  <2> QED
    BY <2>1, <2>2, CourseKept
<1>5. CASE UNCHANGED <<vars, pipeline>>
  BY <1>5, CourseKept DEF pipeline
<1> QED
  BY <1>1, <1>2, <1>3, <1>4, <1>5 DEF Next, Running

(* For every text of good length, key, code space and width of characters: *)
(* braid and reverse give back the text, with the characters that are      *)
(* misread and less what the filter drops, and the Python code finds the   *)
(* checksum right.                                                         *)
THEOREM GoodTextsReturn == Spec => []RoundTrip
<1>1. BraidInv /\ CourseInv => RoundTrip
  <2> SUFFICES ASSUME BraidInv, CourseInv, phase = "done", GoodLength, Whole
               PROVE  restored = Legible /\ (variant = "python" => outcome = "text")
    BY DEF RoundTrip
  <2>1. PICK j : Fitting(j, FromLeft, FromRight)
    BY GoodFits DEF BraidInv
  <2> QED
    BY <2>1 DEF CourseInv, Course
<1>2. PipelineInit => BraidInv /\ CourseInv
  BY BraidInit, CourseInit
<1>3. (BraidInv /\ CourseInv) /\ [Next]_<<vars, pipeline>> => (BraidInv /\ CourseInv)'
  BY BraidStep, CourseStep
<1> QED
  BY <1>1, <1>2, <1>3, PTL DEF Spec
=============================================================================
