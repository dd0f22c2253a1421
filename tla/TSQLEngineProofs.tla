-------------------------- MODULE TSQLEngineProofs --------------------------
(***************************************************************************)
(* Proofs about TSQLEngine, for every hash of every set of times, and any  *)
(* number of events.  The properties speak of the first and the last event *)
(* of a key; Kept and Placed do so by positions in the log, which an event *)
(* appended at its end extends.                                            *)
(***************************************************************************)
EXTENDS TSQLEngine, SequenceTheorems, WellFoundedInduction, TLAPS

(* Entries and logged events are under the key of their time. *)
Typed ==
  /\ hash \in [Times -> Indices] /\ chain \in Seq(Event) /\ log \in Seq(Event)
  /\ \A i \in 1 .. Len(chain) : chain[i].sql_idx = hash[chain[i].t_coord]
  /\ \A k \in 1 .. Len(log) : log[k].sql_idx = hash[log[k].t_coord]

(* k is the position of the last event logged under a key. *)
LastAt(l, k, idx) ==
  /\ k \in 1 .. Len(l) /\ l[k].sql_idx = idx
  /\ \A m \in 1 .. Len(l) : l[m].sql_idx = idx => m <= k

Kept ==
  /\ \A k \in 1 .. Len(log) : \E i \in 1 .. Len(chain) : chain[i].sql_idx = log[k].sql_idx
  /\ \A i \in 1 .. Len(chain) :
       \E k \in 1 .. Len(log) : LastAt(log, k, chain[i].sql_idx) /\ log[k] = chain[i]

(* No event has been ingested since the last query by time. *)
Answered == asked # None => asked \in Times /\ found = Get(hash[asked])

(* k is the position of the first event logged under a key. *)
FirstAt(l, k, idx) ==
  /\ k \in 1 .. Len(l) /\ l[k].sql_idx = idx
  /\ \A m \in 1 .. Len(l) : l[m].sql_idx = idx => k <= m

(* The keys of the entries of s come in the order of their first events. *)
Ranked(l, s) ==
  \A i, j \in 1 .. Len(s) : i <= j =>
    \E k, m \in 1 .. Len(l) :
      /\ FirstAt(l, k, s[i].sql_idx) /\ FirstAt(l, m, s[j].sql_idx)
      /\ i < j => k < m

Placed == Ranked(log, chain) /\ Ranked(log, selected)

Inv == Typed /\ Kept /\ Answered /\ Placed

(* s is the dictionary c after e was stored: the new event is in it, the   *)
(* keys keep their positions, and every other entry stays.                 *)
Updated(c, e, s) ==
  /\ s \in Seq(Event)
  /\ \E i \in 1 .. Len(s) : s[i] = e
  /\ \A i \in 1 .. Len(c) : i \in 1 .. Len(s) /\ s[i].sql_idx = c[i].sql_idx
  /\ \A i \in 1 .. Len(s) :
       \/ s[i] = e
       \/ i \in 1 .. Len(c) /\ s[i] = c[i] /\ c[i].sql_idx # e.sql_idx

-----------------------------------------------------------------------------
(* Every set of natural numbers has a least element, which stands in for   *)
(* induction over the entries of a chain.                                  *)
LEMMA LeastElement ==
  ASSUME NEW T \in SUBSET Nat, T # {} PROVE \E x \in T : \A y \in T : x <= y
<1> DEFINE R == OpToRel(<, Nat)
<1>1. IsWellFoundedOn(R, Nat)
  BY NatLessThanWellFounded
<1>2. \A x, y \in Nat : x < y => <<x, y>> \in R
  BY DEF OpToRel
<1> HIDE DEF R
<1>3. PICK x \in T : \A y \in T : ~ (<<y, x>> \in R)
  BY <1>1, WFMin
<1>4. \A y \in T : ~(y < x)
  BY <1>2, <1>3
<1>5. \A y \in T : x <= y
  BY <1>4, SMT
<1> QED
  BY <1>5

(* A recursion over 0 .. n defines a function.                             *)
Recursion(h, n, base, step) ==
  h = [i \in 0 .. n |-> IF i = 0 THEN base ELSE step[i][h[i - 1]]]

LEMMA ByRecursion ==
  ASSUME NEW n \in Nat, NEW R, NEW base \in R, NEW step \in [0 .. n -> [R -> R]]
  PROVE  \E h \in [0 .. n -> R] : Recursion(h, n, base, step)
<1> USE DEF Recursion
<1> DEFINE Good(m, h) == Recursion(h, m, base, step)
           T == {m \in 0 .. n : ~ \E h \in [0 .. m -> R] : Good(m, h)}
<1> SUFFICES ASSUME T # {} PROVE FALSE
  BY n \in 0 .. n
<1>1. PICK m \in T : \A k \in T : m <= k
  <2>1. T \in SUBSET Nat
    OBVIOUS
  <2> QED
    BY <2>1, LeastElement
<1>2. CASE m = 0
  <2> DEFINE h == [i \in 0 .. 0 |-> base]
  <2>1. \A i \in 0 .. 0 : i = 0
    BY SMT
  <2>2. h \in [0 .. 0 -> R] /\ Good(0, h)
    BY <2>1
  <2> HIDE DEF h
  <2> QED
    BY <1>2, <2>2
<1>3. CASE m # 0
  <2> DEFINE k == m - 1
  <2>1. k \in 0 .. n /\ m = k + 1 /\ ~(m <= k)
    BY <1>3, SMT
  <2>2. PICK g \in [0 .. k -> R] : Good(k, g)
    BY <1>1, <2>1
  <2> DEFINE h == [i \in 0 .. m |-> IF i = m THEN step[m][g[k]] ELSE g[i]]
  <2>3. \A i \in 0 .. m : i \in 0 .. k \/ i = m
    BY <2>1, SMT
  <2>4. \A i \in 0 .. k : i # m /\ i \in 0 .. m /\ k \in 0 .. k
    BY <2>1, SMT
  <2>5. \A i \in 0 .. m : i # 0 => i - 1 \in 0 .. k
    BY <2>1, SMT
  <2>6. m \in 0 .. n
    OBVIOUS
  <2>7. h \in [0 .. m -> R]
    <3>1. k \in 0 .. k
      BY <2>1, SMT
    <3>2. step[m] \in [R -> R] /\ g[k] \in R
      BY <2>6, <3>1
    <3>3. step[m][g[k]] \in R
      BY <3>2
    <3>4. \A i \in 0 .. m : h[i] \in R
      BY <2>3, <3>3
    <3>5. h = [i \in 0 .. m |-> h[i]]
      OBVIOUS
    <3> HIDE DEF h
    <3> QED
      BY <3>4, <3>5
  <2>8. ASSUME NEW i \in 0 .. m
        PROVE  h[i] = IF i = 0 THEN base ELSE step[i][h[i - 1]]
    <3>1. CASE i = m
      <4>1. h[i - 1] = g[k]
        BY <1>3, <2>4, <2>5, <3>1
      <4> QED
        BY <1>3, <3>1, <4>1
    <3>2. CASE i # m
      <4>1. i \in 0 .. k
        BY <2>3, <3>2
      <4>2. h[i] = g[i] /\ (i # 0 => h[i - 1] = g[i - 1])
        BY <2>4, <2>5, <3>2, <4>1
      <4>3. g[i] = IF i = 0 THEN base ELSE step[i][g[i - 1]]
        BY <2>2, <4>1
      <4> HIDE DEF h
      <4> QED
        BY <4>2, <4>3
    <3> QED
      BY <3>1, <3>2
  <2>9. h = [i \in 0 .. m |-> h[i]]
    OBVIOUS
  <2> HIDE DEF h
  <2>10. Good(m, h)
    BY <2>8, <2>9
  <2> QED
    BY <2>7, <2>10
<1> QED
  BY <1>2, <1>3

(* What the comprehension has collected from the first k entries: entries  *)
(* of the chain from growing positions, all those of the range.            *)
Collected(c, lo, hi, s, k) ==
  /\ s \in Seq(Event)
  /\ \A i, j \in 1 .. Len(s) : i <= j =>
       \E v, w \in 1 .. k : s[i] = c[v] /\ s[j] = c[w] /\ v <= w /\ (i < j => v < w)
  /\ \A v \in 1 .. k : InRange(c[v].sql_idx, lo, hi) => \E i \in 1 .. Len(s) : s[i] = c[v]
  /\ \A i \in 1 .. Len(s) : InRange(s[i].sql_idx, lo, hi)

LEMMA CollectOne ==
  ASSUME NEW c \in Seq(Event), NEW lo, NEW hi, NEW s, NEW k \in Nat, k + 1 \in 1 .. Len(c),
         Collected(c, lo, hi, s, k), InRange(c[k + 1].sql_idx, lo, hi)
  PROVE  Collected(c, lo, hi, Append(s, c[k + 1]), k + 1)
<1> DEFINE n == Len(s) + 1
           t == Append(s, c[k + 1])
<1>1. c[k + 1] \in Event /\ s \in Seq(Event) /\ Len(s) \in Nat
  BY ElementOfSeq, LenProperties DEF Collected
<1>2. t \in Seq(Event) /\ Len(t) = n /\ t[n] = c[k + 1] /\ \A i \in 1 .. Len(s) : t[i] = s[i]
  BY <1>1, AppendProperties
<1> HIDE DEF t
<1>3. /\ \A i \in 1 .. n : i \in 1 .. Len(s) \/ i = n
      /\ \A i \in 1 .. Len(s) : i \in 1 .. n
      /\ n \in 1 .. n
      /\ \A i, j \in 1 .. n : i <= j => (i < j => i # j) /\ (j \in 1 .. Len(s) => i \in 1 .. Len(s))
  BY <1>1, SMT
<1>4. /\ \A v \in 1 .. k : v \in 1 .. k + 1 /\ v < k + 1 /\ v <= k + 1
      /\ k + 1 \in 1 .. k + 1 /\ k + 1 <= k + 1
      /\ \A v \in 1 .. k + 1 : v \in 1 .. k \/ v = k + 1
  BY SMT
<1>5. ASSUME NEW i \in 1 .. n, NEW j \in 1 .. n, i <= j
      PROVE  \E v, w \in 1 .. k + 1 : t[i] = c[v] /\ t[j] = c[w] /\ v <= w /\ (i < j => v < w)
  <2>1. CASE j \in 1 .. Len(s)
    <3>1. i \in 1 .. Len(s)
      BY <1>3, <1>5, <2>1
    <3>2. PICK v \in 1 .. k, w \in 1 .. k :
            s[i] = c[v] /\ s[j] = c[w] /\ v <= w /\ (i < j => v < w)
      BY <1>5, <2>1, <3>1 DEF Collected
    <3> QED
      BY <1>2, <1>4, <2>1, <3>1, <3>2
  <2>2. CASE j = n /\ i \in 1 .. Len(s)
    <3>1. PICK v \in 1 .. k : s[i] = c[v]
      <4>1. i <= i
        BY <1>1, <2>2, SMT
      <4> QED
        BY <2>2, <4>1 DEF Collected
    <3> QED
      BY <1>2, <1>4, <2>2, <3>1
  <2>3. CASE j = n /\ i = n
    <3>1. ~(i < j)
      BY <1>1, <2>3, SMT
    <3> QED
      BY <1>2, <1>4, <2>3, <3>1
  <2> QED
    BY <1>3, <2>1, <2>2, <2>3
<1>6. ASSUME NEW v \in 1 .. k + 1, InRange(c[v].sql_idx, lo, hi)
      PROVE  \E i \in 1 .. n : t[i] = c[v]
  <2>1. CASE v = k + 1
    BY <1>2, <1>3, <2>1
  <2>2. CASE v \in 1 .. k
    <3>1. PICK i \in 1 .. Len(s) : s[i] = c[v]
      BY <1>6, <2>2 DEF Collected
    <3> QED
      BY <1>2, <1>3, <3>1
  <2> QED
    BY <1>4, <2>1, <2>2
<1>7. \A i \in 1 .. n : InRange(t[i].sql_idx, lo, hi)
  BY <1>2, <1>3 DEF Collected
<1> HIDE DEF n
<1> QED
  BY <1>2, <1>5, <1>6, <1>7 DEF Collected, t

LEMMA CollectNone ==
  ASSUME NEW c \in Seq(Event), NEW lo, NEW hi, NEW s, NEW k \in Nat,
         Collected(c, lo, hi, s, k), ~InRange(c[k + 1].sql_idx, lo, hi)
  PROVE  Collected(c, lo, hi, s, k + 1)
<1>1. \A v \in 1 .. k : v \in 1 .. k + 1
  BY SMT
<1>2. \A v \in 1 .. k + 1 : v \in 1 .. k \/ v = k + 1
  BY SMT
<1> QED
  BY <1>1, <1>2 DEF Collected

(* A range query collects the entries of the range from the whole chain.   *)
LEMMA SelectionCollects ==
  ASSUME NEW c \in Seq(Event), NEW lo, NEW hi
  PROVE  Collected(c, lo, hi, Selection(c, lo, hi), Len(c))
<1> DEFINE n == Len(c)
           step == [i \in 0 .. n |-> [s \in Seq(Event) |->
                      IF i # 0 /\ InRange(c[i].sql_idx, lo, hi) THEN Append(s, c[i]) ELSE s]]
           Body(h) == h = [i \in 0 .. n |->
                             IF i = 0 THEN <<>>
                             ELSE IF InRange(c[i].sql_idx, lo, hi) THEN Append(h[i - 1], c[i])
                             ELSE h[i - 1]]
           sel == CHOOSE h : Body(h)
<1>0. n \in Nat /\ \A i \in 1 .. n : c[i] \in Event
  BY LenProperties, ElementOfSeq
<1>1. Selection(c, lo, hi) = sel[n]
  BY DEF Selection
<1>2. \A i \in 0 .. n : i # 0 => i \in 1 .. n /\ i - 1 \in 0 .. n
  BY <1>0, SMT
<1>3. step \in [0 .. n -> [Seq(Event) -> Seq(Event)]]
  <2>1. ASSUME NEW i \in 0 .. n, NEW s \in Seq(Event)
        PROVE  (IF i # 0 /\ InRange(c[i].sql_idx, lo, hi) THEN Append(s, c[i]) ELSE s) \in Seq(Event)
    BY <1>0, <1>2, AppendProperties
  <2> QED
    BY <2>1
<1>4. \E h \in [0 .. n -> Seq(Event)] : Recursion(h, n, <<>>, step)
  <2>1. <<>> \in Seq(Event)
    BY EmptySeq
  <2> HIDE DEF step, n
  <2> QED
    BY <1>0, <1>3, <2>1, ByRecursion
<1>5. PICK h \in [0 .. n -> Seq(Event)] : Recursion(h, n, <<>>, step)
  BY <1>4
<1>6. Body(h)
  <2>1. ASSUME NEW i \in 0 .. n, i # 0
        PROVE  step[i][h[i - 1]] = IF InRange(c[i].sql_idx, lo, hi) THEN Append(h[i - 1], c[i])
                                   ELSE h[i - 1]
    BY <1>2, <2>1
  <2> HIDE DEF step
  <2> QED
    BY <1>5, <2>1 DEF Recursion
<1>7. Body(sel)
  BY <1>6
<1> HIDE DEF sel, step
<1>8. /\ sel[0] = <<>>
      /\ \A i \in 0 .. n : i # 0 =>
           sel[i] = IF InRange(c[i].sql_idx, lo, hi) THEN Append(sel[i - 1], c[i]) ELSE sel[i - 1]
  <2>1. 0 \in 0 .. n
    BY <1>0, SMT
  <2>2. \A i \in 0 .. n :
          sel[i] = IF i = 0 THEN <<>>
                   ELSE IF InRange(c[i].sql_idx, lo, hi) THEN Append(sel[i - 1], c[i])
                   ELSE sel[i - 1]
    BY <1>7
  <2> QED
    BY <2>1, <2>2
<1> DEFINE T == {k \in 0 .. n : ~Collected(c, lo, hi, sel[k], k)}
<1>9. T = {}
  <2> SUFFICES ASSUME T # {} PROVE FALSE
    OBVIOUS
  <2>1. PICK m \in T : \A k \in T : m <= k
    <3>1. T \in SUBSET Nat
      BY <1>0
    <3> HIDE DEF T
    <3> QED
      BY <3>1, LeastElement
  <2>2. m \in 0 .. n /\ ~Collected(c, lo, hi, sel[m], m)
    OBVIOUS
  <2>3. CASE m = 0
    <3>1. <<>> \in Seq(Event) /\ Len(<<>>) = 0 /\ 1 .. 0 = {}
      BY EmptySeq, SMT
    <3>2. Collected(c, lo, hi, <<>>, 0)
      BY <3>1 DEF Collected
    <3> QED
      BY <1>8, <2>2, <2>3, <3>2
  <2>4. CASE m # 0
    <3> DEFINE k == m - 1
    <3>1. k \in 0 .. n /\ k \in Nat /\ m = k + 1 /\ m \in 1 .. n /\ ~(m <= k)
      BY <1>0, <2>2, <2>4, SMT
    <3>2. Collected(c, lo, hi, sel[k], k)
      BY <2>1, <3>1
    <3>3. sel[m] = IF InRange(c[m].sql_idx, lo, hi) THEN Append(sel[k], c[m]) ELSE sel[k]
      BY <1>8, <2>2, <2>4
    <3> HIDE DEF k, T
    <3>4. CASE InRange(c[m].sql_idx, lo, hi)
      <4>1. Collected(c, lo, hi, Append(sel[k], c[k + 1]), k + 1)
        BY <3>1, <3>2, <3>4, CollectOne
      <4> QED
        BY <2>2, <3>1, <3>3, <3>4, <4>1
    <3>5. CASE ~InRange(c[m].sql_idx, lo, hi)
      <4>1. Collected(c, lo, hi, sel[k], k + 1)
        BY <3>1, <3>2, <3>5, CollectNone
      <4> QED
        BY <2>2, <3>1, <3>3, <3>5, <4>1
    <3> QED
      BY <3>4, <3>5
  <2> QED
    BY <2>3, <2>4
<1>10. n \in 0 .. n
  BY <1>0, SMT
<1> QED
  BY <1>1, <1>9, <1>10

-----------------------------------------------------------------------------
(* What an assignment to a key does to the dictionary.                     *)
LEMMA StoredProperties ==
  ASSUME NEW c \in Seq(Event), NEW e \in Event
  PROVE  Updated(c, e, Stored(c, e))
<1>0. Len(c) \in Nat /\ \A i \in 1 .. Len(c) : c[i] \in Event
  BY LenProperties, ElementOfSeq
<1>1. CASE Holding(c, e.sql_idx) = {}
  <2>1. Stored(c, e) = Append(c, e)
    BY <1>1 DEF Stored
  <2>2. /\ Append(c, e) \in Seq(Event) /\ Len(Append(c, e)) = Len(c) + 1
        /\ \A i \in 1 .. Len(c) : Append(c, e)[i] = c[i]
        /\ Append(c, e)[Len(c) + 1] = e
    BY AppendProperties
  <2>3. \A i \in 1 .. Len(c) : c[i].sql_idx # e.sql_idx
    BY <1>1 DEF Holding
  <2>4. /\ Len(c) + 1 \in 1 .. Len(c) + 1
        /\ \A i \in 1 .. Len(c) : i \in 1 .. Len(c) + 1
        /\ \A i \in 1 .. Len(c) + 1 : i = Len(c) + 1 \/ i \in 1 .. Len(c)
    BY <1>0, SMT
  <2> QED
    BY <2>1, <2>2, <2>3, <2>4 DEF Updated
<1>2. CASE Holding(c, e.sql_idx) # {}
  <2> DEFINE S == [i \in 1 .. Len(c) |-> IF c[i].sql_idx = e.sql_idx THEN e ELSE c[i]]
  <2>1. Stored(c, e) = S
    BY <1>2 DEF Stored
  <2>2. S \in [1 .. Len(c) -> Event]
    BY <1>0
  <2>3. S \in Seq(Event)
    BY <1>0, <2>2, SeqDef
  <2>4. Len(S) = Len(c)
    <3>1. DOMAIN S = 1 .. Len(c)
      OBVIOUS
    <3>2. DOMAIN S = 1 .. Len(S) /\ Len(S) \in Nat
      BY <2>3, LenProperties
    <3> HIDE DEF S
    <3> QED
      BY <1>0, <3>1, <3>2, SMT
  <2>5. \A i \in 1 .. Len(c) : S[i] = IF c[i].sql_idx = e.sql_idx THEN e ELSE c[i]
    OBVIOUS
  <2>6. \E i \in 1 .. Len(c) : c[i].sql_idx = e.sql_idx
    BY <1>2 DEF Holding
  <2> HIDE DEF S
  <2> QED
    BY <2>1, <2>3, <2>4, <2>5, <2>6 DEF Updated
<1> QED
  BY <1>1, <1>2

(* It leaves every key at its place; a new one goes to the end.            *)
LEMMA StoredPlaces ==
  ASSUME NEW c \in Seq(Event), NEW e \in Event
  PROVE  \/ /\ Len(Stored(c, e)) = Len(c)
            /\ \A i \in 1 .. Len(c) : Stored(c, e)[i].sql_idx = c[i].sql_idx
         \/ /\ \A i \in 1 .. Len(c) : c[i].sql_idx # e.sql_idx
            /\ Len(Stored(c, e)) = Len(c) + 1 /\ Stored(c, e)[Len(c) + 1] = e
            /\ \A i \in 1 .. Len(c) : Stored(c, e)[i] = c[i]
<1>0. Len(c) \in Nat /\ \A i \in 1 .. Len(c) : c[i] \in Event
  BY LenProperties, ElementOfSeq
<1>1. CASE Holding(c, e.sql_idx) = {}
  BY <1>1, AppendProperties DEF Stored, Holding
<1>2. CASE Holding(c, e.sql_idx) # {}
  <2> DEFINE S == [i \in 1 .. Len(c) |-> IF c[i].sql_idx = e.sql_idx THEN e ELSE c[i]]
  <2>1. Stored(c, e) = S /\ DOMAIN S = 1 .. Len(c)
    BY <1>2 DEF Stored
  <2>2. \A i \in 1 .. Len(c) : S[i].sql_idx = c[i].sql_idx
    OBVIOUS
  <2>3. Stored(c, e) \in Seq(Event)
    BY StoredProperties DEF Updated
  <2> HIDE DEF S
  <2>4. DOMAIN S = 1 .. Len(S) /\ Len(S) \in Nat
    BY <2>1, <2>3, LenProperties
  <2>5. Len(S) = Len(c)
    BY <1>0, <2>1, <2>4, SMT
  <2> QED
    BY <2>1, <2>2, <2>5
<1> QED
  BY <1>1, <1>2

(* Get returns an entry of its key, and None only if there is none.        *)
LEMMA GetProperties ==
  ASSUME NEW idx
  PROVE  \/ Get(idx) = None /\ \A i \in 1 .. Len(chain) : chain[i].sql_idx # idx
         \/ \E i \in 1 .. Len(chain) : Get(idx) = chain[i] /\ chain[i].sql_idx = idx
<1>1. CASE Holding(chain, idx) = {}
  BY <1>1 DEF Get, Holding
<1>2. CASE Holding(chain, idx) # {}
  <2> DEFINE h == CHOOSE i \in Holding(chain, idx) : TRUE
  <2>1. h \in Holding(chain, idx) /\ Get(idx) = chain[h]
    BY <1>2 DEF Get
  <2> HIDE DEF h
  <2> QED
    BY <2>1 DEF Holding
<1> QED
  BY <1>1, <1>2

LEMMA EmptyRanked == \A l : Ranked(l, <<>>)
<1>1. Len(<<>>) = 0 /\ 1 .. 0 = {}
  BY EmptySeq, SMT
<1> QED
  BY <1>1 DEF Ranked

(* Chain and log begin empty, and nothing has been asked.                  *)
LEMMA InitInv == Init => Inv
<1> SUFFICES ASSUME Init PROVE Inv
  OBVIOUS
<1> USE DEF Init
<1>1. <<>> \in Seq(Event) /\ Len(<<>>) = 0 /\ 1 .. 0 = {}
  BY EmptySeq, SMT
<1>2. Typed
  BY <1>1 DEF Typed
<1>3. Kept
  BY <1>1 DEF Kept
<1>4. Answered
  BY DEF Answered
<1>5. Placed
  BY <1>1 DEF Placed, Ranked
<1> QED
  BY <1>2, <1>3, <1>4, <1>5 DEF Inv

(* An ingested event becomes the last of its key in the log and the entry  *)
(* of its key in the chain; the last events of the other keys stay.        *)
LEMMA IngestInv ==
  ASSUME Inv, NEW t \in Times, NEW p \in Payloads, Ingest(t, p)
  PROVE  Inv'
<1> DEFINE e == [t_coord |-> t, sql_idx |-> hash[t], payload |-> p]
           n == Len(log) + 1
<1>0. chain' = Stored(chain, e) /\ log' = Append(log, e) /\ hash' = hash /\ asked' = None
  BY DEF Ingest
<1>1. e \in Event /\ e.sql_idx = hash[e.t_coord]
  BY DEF Inv, Typed, Event
<1> HIDE DEF e
<1>2. chain \in Seq(Event) /\ log \in Seq(Event) /\ Len(log) \in Nat
  BY LenProperties DEF Inv, Typed
<1>3. /\ log' \in Seq(Event) /\ Len(log') = n /\ log'[n] = e
      /\ \A k \in 1 .. Len(log) : log'[k] = log[k]
  BY <1>0, <1>1, <1>2, AppendProperties
<1>4. /\ n \in 1 .. n
      /\ \A k \in 1 .. Len(log) : k \in 1 .. n
      /\ \A k \in 1 .. n : k <= n /\ (k = n \/ k \in 1 .. Len(log))
  BY <1>2, SMT
<1>5. /\ chain' \in Seq(Event)
      /\ \E i \in 1 .. Len(chain') : chain'[i] = e
      /\ \A i \in 1 .. Len(chain) :
           i \in 1 .. Len(chain') /\ chain'[i].sql_idx = chain[i].sql_idx
      /\ \A i \in 1 .. Len(chain') :
           \/ chain'[i] = e
           \/ /\ i \in 1 .. Len(chain) /\ chain'[i] = chain[i]
              /\ chain[i].sql_idx # e.sql_idx
  <2>1. Updated(chain, e, chain')
    BY <1>0, <1>1, <1>2, StoredProperties
  <2> QED
    BY <2>1 DEF Updated
<1> HIDE DEF n
<1>6. Typed'
  <2>1. \A i \in 1 .. Len(chain') : chain'[i].sql_idx = hash[chain'[i].t_coord]
    BY <1>1, <1>5 DEF Inv, Typed
  <2>2. \A k \in 1 .. Len(log') : log'[k].sql_idx = hash[log'[k].t_coord]
    BY <1>1, <1>3, <1>4 DEF Inv, Typed
  <2> QED
    BY <1>0, <1>3, <1>5, <2>1, <2>2 DEF Inv, Typed
<1>7. Kept'
  <2>1. ASSUME NEW k \in 1 .. Len(log')
        PROVE  \E i \in 1 .. Len(chain') : chain'[i].sql_idx = log'[k].sql_idx
    <3>1. CASE k = n
      BY <3>1, <1>3, <1>5
    <3>2. CASE k \in 1 .. Len(log)
      <4>1. PICK i \in 1 .. Len(chain) : chain[i].sql_idx = log[k].sql_idx
        BY <3>2 DEF Inv, Kept
      <4> QED
        BY <4>1, <3>2, <1>3, <1>5
    <3> QED
      BY <3>1, <3>2, <1>3, <1>4
  <2>2. ASSUME NEW i \in 1 .. Len(chain')
        PROVE  \E k \in 1 .. Len(log') : LastAt(log', k, chain'[i].sql_idx) /\ log'[k] = chain'[i]
    <3>1. CASE chain'[i] = e
      <4>1. LastAt(log', n, e.sql_idx)
        BY <1>3, <1>4 DEF LastAt
      <4> QED
        BY <3>1, <4>1, <1>3, <1>4
    <3>2. CASE /\ i \in 1 .. Len(chain) /\ chain'[i] = chain[i]
               /\ chain[i].sql_idx # e.sql_idx
      <4>1. PICK k \in 1 .. Len(log) : LastAt(log, k, chain[i].sql_idx) /\ log[k] = chain[i]
        BY <3>2 DEF Inv, Kept
      <4>2. LastAt(log', k, chain[i].sql_idx)
        BY <4>1, <3>2, <1>3, <1>4 DEF LastAt
      <4> QED
        BY <4>1, <4>2, <3>2, <1>3, <1>4
    <3> QED
      BY <3>1, <3>2, <1>5
  <2> QED
    BY <2>1, <2>2 DEF Kept
<1>8. Answered'
  BY <1>0 DEF Answered
<1>9. Placed'
  <2>1. ASSUME NEW k, NEW idx, FirstAt(log, k, idx) PROVE FirstAt(log', k, idx)
    <3>1. k \in 1 .. Len(log) /\ k <= n
      BY <2>1, <1>4 DEF FirstAt
    <3> QED
      BY <2>1, <3>1, <1>3, <1>4 DEF FirstAt
  <2>2. ASSUME NEW i \in 1 .. Len(chain)
        PROVE  \E k \in 1 .. Len(log) : FirstAt(log, k, chain[i].sql_idx)
    <3>1. Len(chain) \in Nat /\ i <= i
      BY <1>2, LenProperties, SMT
    <3> QED
      BY <3>1 DEF Inv, Placed, Ranked
  <2>3. CASE /\ Len(chain') = Len(chain)
             /\ \A i \in 1 .. Len(chain) : chain'[i].sql_idx = chain[i].sql_idx
    <3>1. ASSUME NEW i \in 1 .. Len(chain), NEW j \in 1 .. Len(chain), i <= j
          PROVE  \E k, m \in 1 .. n :
                   /\ FirstAt(log', k, chain'[i].sql_idx) /\ FirstAt(log', m, chain'[j].sql_idx)
                   /\ i < j => k < m
      <4>1. PICK k \in 1 .. Len(log), m \in 1 .. Len(log) :
              /\ FirstAt(log, k, chain[i].sql_idx) /\ FirstAt(log, m, chain[j].sql_idx)
              /\ i < j => k < m
        BY <3>1 DEF Inv, Placed, Ranked
      <4>2. FirstAt(log', k, chain'[i].sql_idx) /\ FirstAt(log', m, chain'[j].sql_idx)
        BY <4>1, <2>1, <2>3
      <4> QED
        BY <4>1, <4>2, <1>4
    <3> QED
      BY <3>1, <2>3, <1>0, <1>3, EmptyRanked DEF Ranked, Placed, Ingest
  <2>4. CASE /\ \A i \in 1 .. Len(chain) : chain[i].sql_idx # e.sql_idx
             /\ Len(chain') = Len(chain) + 1 /\ chain'[Len(chain) + 1] = e
             /\ \A i \in 1 .. Len(chain) : chain'[i] = chain[i]
    <3>1. \A m \in 1 .. Len(log) : log[m].sql_idx # e.sql_idx
      BY <2>4 DEF Inv, Kept
    <3>2. FirstAt(log', n, e.sql_idx)
      <4>1. n <= n
        BY <1>4
      <4> QED
        BY <3>1, <4>1, <1>3, <1>4 DEF FirstAt
    <3>3. /\ \A i \in 1 .. Len(chain) + 1 : i \in 1 .. Len(chain) \/ i = Len(chain) + 1
          /\ \A i, j \in 1 .. Len(chain) + 1 :
               i <= j /\ j \in 1 .. Len(chain) => i \in 1 .. Len(chain)
          /\ ~(Len(chain) + 1 < Len(chain) + 1)
          /\ \A k \in 1 .. Len(log) : k < n
      BY <1>2, LenProperties, SMT DEF n
    <3>4. ASSUME NEW i \in 1 .. Len(chain) + 1, NEW j \in 1 .. Len(chain) + 1, i <= j
          PROVE  \E k, m \in 1 .. n :
                   /\ FirstAt(log', k, chain'[i].sql_idx) /\ FirstAt(log', m, chain'[j].sql_idx)
                   /\ i < j => k < m
      <4>1. CASE j \in 1 .. Len(chain)
        <5>1. i \in 1 .. Len(chain)
          BY <3>3, <3>4, <4>1
        <5>2. PICK k \in 1 .. Len(log), m \in 1 .. Len(log) :
                /\ FirstAt(log, k, chain[i].sql_idx) /\ FirstAt(log, m, chain[j].sql_idx)
                /\ i < j => k < m
          BY <3>4, <4>1, <5>1 DEF Inv, Placed, Ranked
        <5> QED
          BY <4>1, <5>1, <5>2, <2>1, <2>4, <1>4
      <4>2. CASE j = Len(chain) + 1 /\ i \in 1 .. Len(chain)
        <5>1. PICK k \in 1 .. Len(log) : FirstAt(log, k, chain[i].sql_idx)
          BY <4>2, <2>2
        <5>2. k < n /\ k \in 1 .. n /\ n \in 1 .. n
          BY <3>3, <1>4
        <5> QED
          BY <4>2, <5>1, <5>2, <2>1, <2>4, <3>2
      <4>3. CASE j = Len(chain) + 1 /\ i = Len(chain) + 1
        BY <4>3, <2>4, <3>2, <3>3, <1>4
      <4> QED
        BY <3>3, <4>1, <4>2, <4>3
    <3> QED
      BY <3>4, <2>4, <1>0, <1>3, EmptyRanked DEF Ranked, Placed, Ingest
  <2> QED
    BY <2>3, <2>4, <1>0, <1>1, <1>2, StoredPlaces
<1> QED
  BY <1>6, <1>7, <1>8, <1>9 DEF Inv

(* Queries change neither chain nor log; only a query by time answers.     *)
LEMMA QueryInv ==
  ASSUME Inv, NEW t \in Times, QueryByTime(t)
  PROVE  Inv'
<1>1. Typed' /\ Kept'
  BY DEF Inv, Typed, Kept, LastAt, QueryByTime
<1>2. Answered'
  BY DEF QueryByTime, Answered, Get, Holding
<1>3. Placed'
  <2>1. log' = log /\ chain' = chain /\ selected' = selected
    BY DEF QueryByTime
  <2> QED
    BY <2>1 DEF Inv, Placed
<1> QED
  BY <1>1, <1>2, <1>3 DEF Inv

(* A range query selects from growing positions of the chain, so its keys  *)
(* come in the chain's order.                                              *)
LEMMA ManifoldInv ==
  ASSUME Inv, NEW lo, NEW hi, QueryManifold(lo, hi)
  PROVE  Inv'
<1>0. UNCHANGED <<hash, chain, log, found, asked>> /\ selected' = Selection(chain, lo, hi)
  BY DEF QueryManifold
<1>1. Typed' /\ Kept' /\ Answered'
  BY <1>0 DEF Inv, Typed, Kept, LastAt, Answered, Get, Holding
<1>2. Collected(chain, lo, hi, selected', Len(chain))
  BY <1>0, SelectionCollects DEF Inv, Typed
<1>3. ASSUME NEW i \in 1 .. Len(selected'), NEW j \in 1 .. Len(selected'), i <= j
      PROVE  \E k, m \in 1 .. Len(log) :
               /\ FirstAt(log, k, selected'[i].sql_idx) /\ FirstAt(log, m, selected'[j].sql_idx)
               /\ i < j => k < m
  <2>1. PICK v \in 1 .. Len(chain), w \in 1 .. Len(chain) :
          selected'[i] = chain[v] /\ selected'[j] = chain[w] /\ v <= w /\ (i < j => v < w)
    BY <1>2, <1>3 DEF Collected
  <2>2. PICK k \in 1 .. Len(log), m \in 1 .. Len(log) :
          /\ FirstAt(log, k, chain[v].sql_idx) /\ FirstAt(log, m, chain[w].sql_idx)
          /\ v < w => k < m
    BY <2>1 DEF Inv, Placed, Ranked
  <2> QED
    BY <2>1, <2>2
<1>4. Ranked(log', selected')
  BY <1>0, <1>3 DEF Ranked
<1>5. Placed'
  <2>1. log' = log /\ chain' = chain /\ Ranked(log, chain)
    BY <1>0 DEF Inv, Placed
  <2> QED
    BY <1>4, <2>1 DEF Placed
<1> QED
  BY <1>1, <1>5 DEF Inv

LEMMA KeepInv ==
  ASSUME Inv, UNCHANGED vars
  PROVE  Inv'
<1>1. UNCHANGED <<hash, chain, log, found, asked, selected>>
  BY DEF vars
<1>2. Typed' /\ Kept' /\ Answered'
  BY <1>1 DEF Inv, Typed, Kept, LastAt, Answered, Get, Holding
<1>3. Placed'
  BY <1>1 DEF Inv, Placed
<1> QED
  BY <1>2, <1>3 DEF Inv

(* Inv is inductive.                                                       *)
LEMMA StepInv == Inv /\ [Next]_vars => Inv'
<1> SUFFICES ASSUME Inv, [Next]_vars PROVE Inv'
  OBVIOUS
<1>1. CASE \E t \in Times, p \in Payloads : Ingest(t, p)
  BY <1>1, IngestInv
<1>2. CASE \E t \in Times : QueryByTime(t)
  BY <1>2, QueryInv
<1>3. CASE \E lo, hi \in Indices : QueryManifold(lo, hi)
  BY <1>3, ManifoldInv
<1>4. CASE UNCHANGED vars
  BY <1>4, KeepInv
<1> QED
  BY <1>1, <1>2, <1>3, <1>4 DEF Next

LEMMA SpecInv == Spec => []Inv
  BY InitInv, StepInv, PTL DEF Spec

(* The position Kept speaks of is the one LastLogged chooses.              *)
LEMMA LastLoggedIs ==
  ASSUME log \in Seq(Event), NEW idx, NEW k, LastAt(log, k, idx)
  PROVE  LastLogged(idx) = k
<1> DEFINE Latest(i) == i \in Holding(log, idx) /\ \A j \in Holding(log, idx) : j <= i
<1>0. Len(log) \in Nat
  BY LenProperties
<1>1. Latest(k)
  BY DEF LastAt, Holding
<1>2. ASSUME NEW i \in Holding(log, idx), \A j \in Holding(log, idx) : j <= i
      PROVE  i = k
  <2>1. i \in 1 .. Len(log) /\ k \in 1 .. Len(log) /\ i <= k /\ k <= i
    BY <1>1, <1>2 DEF Holding
  <2> QED
    BY <1>0, <2>1, SMT
<1> QED
  BY <1>1, <1>2 DEF LastLogged

LEMMA FirstLoggedIs ==
  ASSUME log \in Seq(Event), NEW idx, NEW k, FirstAt(log, k, idx)
  PROVE  FirstLogged(idx) = k
<1> DEFINE First(i) == i \in Holding(log, idx) /\ \A j \in Holding(log, idx) : i <= j
<1>0. Len(log) \in Nat
  BY LenProperties
<1>1. First(k)
  BY DEF FirstAt, Holding
<1>2. ASSUME NEW i \in Holding(log, idx), \A j \in Holding(log, idx) : i <= j
      PROVE  i = k
  <2>1. i \in 1 .. Len(log) /\ k \in 1 .. Len(log) /\ i <= k /\ k <= i
    BY <1>1, <1>2 DEF Holding
  <2> QED
    BY <1>0, <2>1, SMT
<1> QED
  BY <1>1, <1>2 DEF FirstLogged

(* A range query returns events in the order in which their keys were      *)
(* first written, for every hash, range and number of events.              *)
THEOREM RangesInOrder == Spec => []ManifoldOrdered
<1>1. Inv => ManifoldOrdered
  <2> SUFFICES ASSUME Inv, NEW i \in 1 .. Len(selected), NEW j \in 1 .. Len(selected), i < j
               PROVE  FirstLogged(selected[i].sql_idx) < FirstLogged(selected[j].sql_idx)
    BY DEF ManifoldOrdered
  <2>1. i <= j
    BY SMT
  <2>2. PICK k \in 1 .. Len(log), m \in 1 .. Len(log) :
          /\ FirstAt(log, k, selected[i].sql_idx) /\ FirstAt(log, m, selected[j].sql_idx)
          /\ k < m
    BY <2>1 DEF Inv, Placed, Ranked
  <2> QED
    BY <2>2, FirstLoggedIs DEF Inv, Typed
<1> QED
  BY <1>1, SpecInv, PTL

(* And it returns exactly the entries of the range: whatever has happened  *)
(* before, each of them, and nothing else.                                 *)
ManifoldComplete ==
  [][\A lo, hi \in Indices : QueryManifold(lo, hi) =>
       Range(selected') = {e \in Range(chain) : InRange(e.sql_idx, lo, hi)}]_vars

THEOREM RangesComplete == Spec => ManifoldComplete
<1> DEFINE A == \A lo, hi \in Indices : QueryManifold(lo, hi) =>
                  Range(selected') = {e \in Range(chain) : InRange(e.sql_idx, lo, hi)}
<1>1. Inv => A
  <2> SUFFICES ASSUME Inv, NEW lo, NEW hi, QueryManifold(lo, hi)
               PROVE  Range(selected') = {e \in Range(chain) : InRange(e.sql_idx, lo, hi)}
    OBVIOUS
  <2>1. Collected(chain, lo, hi, selected', Len(chain))
    BY SelectionCollects DEF QueryManifold, Inv, Typed
  <2>2. /\ \A e : e \in Range(selected') <=> \E i \in 1 .. Len(selected') : e = selected'[i]
        /\ \A e : e \in Range(chain) <=> \E i \in 1 .. Len(chain) : e = chain[i]
    BY <2>1, LenProperties DEF Range, Collected, Inv, Typed
  <2>3. Len(selected') \in Nat /\ \A i \in 1 .. Len(selected') : i <= i
    BY <2>1, LenProperties, SMT DEF Collected
  <2>4. \A i \in 1 .. Len(selected') : \E v \in 1 .. Len(chain) : selected'[i] = chain[v]
    BY <2>1, <2>3 DEF Collected
  <2>5. \A i \in 1 .. Len(selected') : InRange(selected'[i].sql_idx, lo, hi)
    BY <2>1 DEF Collected
  <2>6. \A v \in 1 .. Len(chain) : InRange(chain[v].sql_idx, lo, hi) =>
          \E i \in 1 .. Len(selected') : selected'[i] = chain[v]
    BY <2>1 DEF Collected
  <2>7. \A e : e \in Range(selected') <=> e \in Range(chain) /\ InRange(e.sql_idx, lo, hi)
    BY <2>2, <2>4, <2>5, <2>6
  <2> QED
    BY <2>7
<1>2. Inv /\ [Next]_vars => [A]_vars
  BY <1>1
<1> QED
  BY <1>2, SpecInv, PTL DEF Spec, ManifoldComplete

(* However times collide: a query answers with the last event of the key,  *)
(* which has the time asked for exactly if no other time took the key      *)
(* since.                                                                  *)
THEOREM QueriesAnswerLast == Spec => []QueryAnswersLast
<1>1. Inv => QueryAnswersLast
  <2> SUFFICES ASSUME Inv, asked # None PROVE
        /\ found = IF Holding(log, hash[asked]) = {} THEN None ELSE log[LastLogged(hash[asked])]
        /\ (found # None /\ found.t_coord = asked) <=>
             \E i \in 1 .. Len(log) :
               /\ log[i].t_coord = asked
               /\ \A j \in i + 1 .. Len(log) :
                    hash[log[j].t_coord] = hash[asked] => log[j].t_coord = asked
    BY DEF QueryAnswersLast
  <2>1. /\ asked \in Times /\ found = Get(hash[asked])
        /\ log \in Seq(Event) /\ Len(log) \in Nat
        /\ \A i \in 1 .. Len(log) : log[i] \in Event /\ log[i].sql_idx = hash[log[i].t_coord]
    BY LenProperties, ElementOfSeq DEF Inv, Typed, Answered
  <2>2. CASE \A i \in 1 .. Len(log) : log[i].sql_idx # hash[asked]
    <3>1. Holding(log, hash[asked]) = {}
      BY <2>2 DEF Holding
    <3>2. \A i \in 1 .. Len(chain) : chain[i].sql_idx # hash[asked]
      <4>1. ASSUME NEW i \in 1 .. Len(chain) PROVE chain[i].sql_idx # hash[asked]
        <5>1. PICK m \in 1 .. Len(log) : LastAt(log, m, chain[i].sql_idx)
          BY DEF Inv, Kept
        <5> QED
          BY <2>2, <5>1 DEF LastAt
      <4> QED
        BY <4>1
    <3>3. found = None
      BY <2>1, <3>2, GetProperties
    <3>4. \A i \in 1 .. Len(log) : log[i].t_coord # asked
      BY <2>1, <2>2
    <3> QED
      BY <3>1, <3>3, <3>4
  <2>3. ASSUME NEW m \in 1 .. Len(log), log[m].sql_idx = hash[asked]
        PROVE  \E i \in 1 .. Len(log) : LastAt(log, i, hash[asked]) /\ found = log[i]
    <3>1. PICK i \in 1 .. Len(chain) : chain[i].sql_idx = hash[asked]
      BY <2>3 DEF Inv, Kept
    <3>2. PICK v \in 1 .. Len(chain) : found = chain[v] /\ chain[v].sql_idx = hash[asked]
      BY <2>1, <3>1, GetProperties
    <3> QED
      BY <3>2 DEF Inv, Kept
  <2>4. CASE \E m \in 1 .. Len(log) : log[m].sql_idx = hash[asked]
    <3>1. PICK i \in 1 .. Len(log) : LastAt(log, i, hash[asked]) /\ found = log[i]
      BY <2>3, <2>4
    <3>2. LastLogged(hash[asked]) = i /\ Holding(log, hash[asked]) # {}
      BY <2>1, <3>1, LastLoggedIs DEF LastAt, Holding
    <3>3. found # None
      BY <2>1, <3>1, NoneAssumption DEF NoneAssumption
    <3>4. ASSUME found.t_coord = asked
          PROVE  /\ log[i].t_coord = asked
                 /\ \A j \in i + 1 .. Len(log) :
                      hash[log[j].t_coord] = hash[asked] => log[j].t_coord = asked
      <4>1. ASSUME NEW j \in i + 1 .. Len(log) PROVE hash[log[j].t_coord] # hash[asked]
        <5>1. j \in 1 .. Len(log) /\ ~(j <= i)
          BY <2>1
        <5> QED
          BY <2>1, <3>1, <5>1 DEF LastAt
      <4> QED
        BY <3>1, <3>4, <4>1
    <3>5. ASSUME NEW m \in 1 .. Len(log), log[m].t_coord = asked,
                 \A j \in m + 1 .. Len(log) : hash[log[j].t_coord] = hash[asked] => log[j].t_coord = asked
          PROVE  found.t_coord = asked
      <4>1. m <= i
        BY <2>1, <3>1, <3>5 DEF LastAt
      <4>2. m = i \/ i \in m + 1 .. Len(log)
        BY <2>1, <4>1
      <4>3. hash[log[i].t_coord] = hash[asked]
        BY <2>1, <3>1 DEF LastAt
      <4> QED
        BY <3>1, <3>5, <4>2, <4>3
    <3> QED
      BY <3>1, <3>2, <3>3, <3>4, <3>5
  <2> QED
    BY <2>2, <2>4
<1> QED
  BY <1>1, SpecInv, PTL
=============================================================================
