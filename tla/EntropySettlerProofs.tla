------------------------ MODULE EntropySettlerProofs ------------------------
(***************************************************************************)
(* Proofs about EntropySettler, for every width of the seed, every range   *)
(* of the numbers, every salt and every course of the time.  SeedWhole and *)
(* SettledOnce are inductive beside the types: the window follows the      *)
(* register bit by bit, and the pulse carries what the two counters are    *)
(* apart.                                                                  *)
(***************************************************************************)
EXTENDS EntropySettler, SequenceTheorems, TLAPS

Inv == TypeOK /\ SeedWhole /\ SettledOnce

(* Taking the remainder changes nothing below the modulus.                 *)
LEMMA SmallMod == \A a \in 0 .. IdSize - 1 : (a + 0) % IdSize = a
  BY IdAssumption, SMT DEF IdAssumption

(* A successor wraps into the range of the numbers.                        *)
LEMMA NextInRange == \A a \in 0 .. IdSize - 1 : (a + 1) % IdSize \in 0 .. IdSize - 1
  BY IdAssumption, SMT DEF IdAssumption

(* At power-up nothing is gathered, announced or settled.                  *)
LEMMA InitInv == Init => Inv
<1> SUFFICES ASSUME Init PROVE Inv
  OBVIOUS
<1> USE DEF Init
<1>0. 0 \in 0 .. SeedBits - 1 /\ 0 \in 0 .. IdSize - 1
  BY SeedAssumption, IdAssumption, SMT DEF SeedAssumption, IdAssumption
<1>1. TypeOK
  <2>1. seed \in [Positions -> Bit]
    BY DEF Bit
  <2>2. count \in Positions /\ sequence \in 0 .. IdSize - 1 /\ completed \in 0 .. IdSize - 1
    BY <1>0 DEF Positions
  <2>3. window \in Seq(Bit) /\ full \in Seq(Bit)
    BY EmptySeq
  <2> QED
    BY <2>1, <2>2, <2>3 DEF TypeOK
<1>2. SeedWhole
  <2>1. Len(window) = count
    BY EmptySeq
  <2>2. 0 .. count - 1 = {}
    BY SMT
  <2> QED
    BY <2>1, <2>2 DEF SeedWhole
<1>3. SettledOnce
  BY <1>0, SmallMod DEF SettledOnce
<1> QED
  BY <1>1, <1>2, <1>3 DEF Inv

(* A sample extends the window by the bit it puts into the register; the   *)
(* last one of a seed makes the window the completed seed.                 *)
LEMMA GatherWhole ==
  ASSUME Inv, NEW bit \in Bit, Gather(bit)
  PROVE  /\ seed' \in [Positions -> Bit] /\ count' \in Positions /\ seedValid' \in BOOLEAN
         /\ window' \in Seq(Bit) /\ full' \in Seq(Bit)
         /\ SeedWhole'
<1> DEFINE longer == Append(window, bit)
<1>0. seed \in [Positions -> Bit] /\ count \in Positions /\ window \in Seq(Bit) /\ full \in Seq(Bit)
  BY DEF Inv, TypeOK
<1>1. /\ longer \in Seq(Bit) /\ Len(longer) = Len(window) + 1
      /\ \A i \in 1 .. Len(window) : longer[i] = window[i]
      /\ longer[Len(window) + 1] = bit
  BY <1>0, AppendProperties
<1>2. Len(window) = count /\ \A i \in 0 .. count - 1 : seed[i] = window[i + 1]
  BY DEF Inv, SeedWhole
<1>3. seed' = [seed EXCEPT ![count] = bit]
  BY DEF Gather
<1>4. seed' \in [Positions -> Bit] /\ \A i \in Positions : seed'[i] = IF i = count THEN bit ELSE seed[i]
  BY <1>0, <1>3
<1>5. Len(longer) = count + 1 /\ \A i \in 0 .. count : seed'[i] = longer[i + 1]
  <2>1. Len(longer) = count + 1 /\ longer[count + 1] = bit
    BY <1>1, <1>2
  <2> SUFFICES ASSUME NEW i \in 0 .. count PROVE seed'[i] = longer[i + 1]
    BY <2>1
  <2>2. i \in Positions
    <3>1. count \in 0 .. SeedBits - 1 /\ SeedBits \in Nat
      BY <1>0, SeedAssumption DEF SeedAssumption, Positions
    <3> QED
      BY <3>1, SMT DEF Positions
  <2>3. CASE i = count
    BY <2>1, <2>2, <2>3, <1>4
  <2>4. CASE i # count
    <3>1. i \in 0 .. count - 1 /\ i + 1 \in 1 .. count
      BY <1>0, <2>4, SMT DEF Positions
    <3> QED
      BY <3>1, <2>2, <2>4, <1>1, <1>2, <1>4
  <2> QED
    BY <2>3, <2>4
<1>6. CASE Last
  <2>1. seedValid' = TRUE /\ count' = 0 /\ window' = <<>> /\ full' = longer
    BY <1>6 DEF Gather
  <2>2. count + 1 = SeedBits /\ 0 .. count = Positions /\ 0 \in Positions /\ 0 .. 0 - 1 = {}
    BY <1>0, <1>6, SeedAssumption, SMT DEF SeedAssumption, Last, Positions
  <2>3. Len(window') = count' /\ window' \in Seq(Bit)
    BY <2>1, EmptySeq
  <2>4. Len(full') = SeedBits /\ \A i \in Positions : seed'[i] = full'[i + 1]
    BY <2>1, <2>2, <1>5
  <2> QED
    BY <1>1, <1>4, <2>1, <2>2, <2>3, <2>4 DEF SeedWhole
<1>7. CASE ~Last
  <2>1. seedValid' = FALSE /\ count' = count + 1 /\ window' = longer /\ full' = full
    BY <1>7 DEF Gather
  <2>2. count + 1 \in Positions /\ 0 .. (count + 1) - 1 = 0 .. count
    BY <1>0, <1>7, SeedAssumption, SMT DEF SeedAssumption, Last, Positions
  <2> QED
    BY <1>0, <1>1, <1>4, <1>5, <2>1, <2>2 DEF SeedWhole
<1> QED
  BY <1>6, <1>7

(* Without a sample the register stays, and the pulse ends.                *)
LEMMA QuietWhole ==
  ASSUME Inv, Quiet
  PROVE  /\ seed' \in [Positions -> Bit] /\ count' \in Positions /\ seedValid' \in BOOLEAN
         /\ window' \in Seq(Bit) /\ full' \in Seq(Bit)
         /\ SeedWhole'
  BY DEF Inv, TypeOK, Quiet, SeedWhole

(* The settler's counter takes the pulse that the bridge drops, and the    *)
(* bridge's count of seeds goes with the pulse that it sets.               *)
LEMMA EdgeSettledOnce ==
  ASSUME Inv, NEW t \in Time, Edge(t)
  PROVE  /\ sequence' \in 0 .. IdSize - 1 /\ completed' \in 0 .. IdSize - 1
         /\ settleValid' \in BOOLEAN /\ settleId' \in (0 .. IdSize - 1) \cup {Unset}
         /\ SettledOnce'
<1>0. /\ sequence \in 0 .. IdSize - 1 /\ completed \in 0 .. IdSize - 1
      /\ seedValid \in BOOLEAN /\ settleId \in (0 .. IdSize - 1) \cup {Unset}
  BY DEF Inv, TypeOK
<1>1. completed = (sequence + (IF seedValid THEN 1 ELSE 0)) % IdSize
  BY DEF Inv, SettledOnce
<1>2. sequence' = completed /\ sequence' \in 0 .. IdSize - 1
  <2>1. CASE seedValid
    BY <2>1, <1>0, <1>1, NextInRange DEF Edge, Settle
  <2>2. CASE ~seedValid
    BY <2>2, <1>0, <1>1, SmallMod DEF Edge, Settle
  <2> QED
    BY <2>1, <2>2
<1>3. /\ settleValid' \in BOOLEAN /\ settleId' \in (0 .. IdSize - 1) \cup {Unset}
      /\ settleValid' => settleId' = sequence'
  BY <1>0, <1>2 DEF Edge, Settle, NextId
<1>4. /\ seedValid' \in BOOLEAN
      /\ completed' = IF seedValid' THEN (completed + 1) % IdSize ELSE completed
  BY DEF Edge, Quiet, Gather, Last
<1>5. /\ completed' \in 0 .. IdSize - 1
      /\ completed' = (sequence' + (IF seedValid' THEN 1 ELSE 0)) % IdSize
  BY <1>0, <1>2, <1>4, NextInRange, SmallMod
<1> QED
  BY <1>2, <1>3, <1>5 DEF SettledOnce

(* A clock edge keeps Inv: each process keeps its own part.                *)
LEMMA EdgeInv == ASSUME Inv, NEW t \in Time, Edge(t) PROVE Inv'
<1>1. /\ seed' \in [Positions -> Bit] /\ count' \in Positions /\ seedValid' \in BOOLEAN
      /\ window' \in Seq(Bit) /\ full' \in Seq(Bit)
      /\ SeedWhole'
  BY GatherWhole, QuietWhole DEF Edge
<1>2. seedData' = Unset
  BY DEF Inv, TypeOK, Edge, Quiet, Gather
<1> QED
  BY <1>1, <1>2, EdgeSettledOnce DEF Inv, TypeOK

(* A reset clears both counters and the pulse together.                    *)
LEMMA ResetInv == ASSUME Inv, Reset PROVE Inv'
<1> USE DEF Reset
<1>0. 0 \in 0 .. SeedBits - 1 /\ 0 \in 0 .. IdSize - 1 /\ 0 .. 0 - 1 = {}
  BY SeedAssumption, IdAssumption, SMT DEF SeedAssumption, IdAssumption
<1>1. TypeOK'
  <2>1. seed' \in [Positions -> Bit]
    BY DEF Bit
  <2>2. count' \in Positions /\ sequence' \in 0 .. IdSize - 1 /\ completed' \in 0 .. IdSize - 1
    BY <1>0 DEF Positions
  <2>3. window' \in Seq(Bit)
    BY EmptySeq
  <2> QED
    BY <2>1, <2>2, <2>3 DEF Inv, TypeOK
<1>2. SeedWhole'
  BY <1>0, EmptySeq DEF SeedWhole
<1>3. SettledOnce'
  BY <1>0, SmallMod DEF SettledOnce
<1> QED
  BY <1>1, <1>2, <1>3 DEF Inv

(* Inv is inductive.                                                       *)
LEMMA StepInv == Inv /\ [Next]_vars => Inv'
<1> SUFFICES ASSUME Inv, [Next]_vars PROVE Inv'
  OBVIOUS
<1>1. CASE \E t \in Time : Edge(t)
  BY <1>1, EdgeInv
<1>2. CASE Reset
  BY <1>2, ResetInv
<1>3. CASE UNCHANGED vars
  BY <1>3 DEF vars, bridge, settler, history, Inv, TypeOK, SeedWhole, SettledOnce
<1> QED
  BY <1>1, <1>2, <1>3 DEF Next

LEMMA SpecInv == Spec => []Inv
  BY InitInv, StepInv, PTL DEF Spec

(* Every signal of bridge and settler keeps to its VHDL type.              *)
THEOREM TypeCorrect == Spec => []TypeOK
<1>1. Inv => TypeOK
  BY DEF Inv
<1> QED
  BY <1>1, SpecInv, PTL

(* A seed that is announced consists of the last SeedBits samples, in the  *)
(* order they came.                                                        *)
THEOREM SeedsAreWhole == Spec => []SeedWhole
<1>1. Inv => SeedWhole
  BY DEF Inv
<1> QED
  BY <1>1, SpecInv, PTL

(* Every completed seed is settled once, under the next number.            *)
THEOREM SettlementsMatchSeeds == Spec => []SettledOnce
<1>1. Inv => SettledOnce
  BY DEF Inv
<1> QED
  BY <1>1, SpecInv, PTL

(* A settlement is stamped with the time of its own edge.                  *)
THEOREM StampsAreCurrent == Spec => []StampIsCurrent
<1>1. Init => StampIsCurrent
  BY DEF Init, StampIsCurrent
<1>2. StampIsCurrent /\ [Next]_vars => StampIsCurrent'
  BY DEF StampIsCurrent, Next, Edge, Settle, Stamp, Index, Reset, vars, settler, history
<1> QED
  BY <1>1, <1>2, PTL DEF Spec
=============================================================================
