--------------------------- MODULE EntropySettler ---------------------------
(***************************************************************************)
(* The entropy path: vhdl/anu_entropy_bridge.vhd gathers the top bits of   *)
(* vacuum samples into a seed, vhdl/p4_tsql_settler.vhd numbers and stamps *)
(* each completed seed.  Both are clocked and reset together; a step is a  *)
(* rising edge, at which both read the wires as they were before it, or    *)
(* the asynchronous reset.                                                 *)
(***************************************************************************)
EXTENDS Integers, Sequences

CONSTANTS
  SeedBits,   \* width of seed_reg (256)
  IdSize,     \* 2^64, the range of sequence_cnt
  Half,       \* values of each 32-bit half of timestamp_in: sets of bits
  Salt,       \* T_SQL_SALT, as a set of bits
  Unset       \* a signal that was never driven ('U')

ASSUME SeedAssumption == SeedBits \in Nat /\ SeedBits > 1
ASSUME IdAssumption == IdSize \in Nat /\ IdSize > 1
ASSUME UnsetAssumption == Unset \notin Nat

VARIABLES
  seed,         \* seed_reg
  count,        \* bit_count
  seedValid,    \* q_seed_valid
  seedData,     \* q_seed_data
  sequence,     \* sequence_cnt
  settleValid, settleId, settleIndex,
  window,       \* history: the samples of the seed under way
  full,         \* history: those of the last completed seed
  completed,    \* history: seeds completed since reset, modulo IdSize
  clock         \* history: timestamp_in at the last edge

bridge == <<seed, count, seedValid, seedData>>
settler == <<sequence, settleValid, settleId, settleIndex>>
history == <<window, full, completed, clock>>
vars == <<bridge, settler, history>>

Bit == {0, 1}
Positions == 0 .. SeedBits - 1
Time == Half \X Half

Xor(a, b) == (a \ b) \cup (b \ a)

(* The combinational process behind t_sql_index. *)
Index(t) == Xor(Xor(t[1], t[2]), Salt)

-----------------------------------------------------------------------------
Init ==
  /\ seed = [i \in Positions |-> 0] /\ count = 0
  /\ seedValid = FALSE /\ seedData = Unset
  /\ sequence = 0 /\ settleValid = FALSE /\ settleId = Unset /\ settleIndex = Unset
  /\ window = <<>> /\ full = <<>> /\ completed = 0 /\ clock = Unset

(* No sample: q_seed_valid is a pulse of one edge. *)
Quiet ==
  /\ seedValid' = FALSE
  /\ UNCHANGED <<seed, count, seedData, window, full, completed>>

(* Mutant of Last: the wrap comes one bit late. *)
LastLate == count = SeedBits

Last == count = SeedBits - 1

(* Mutant of Gather: a completed seed is announced, the place of the next  *)
(* bit stays.                                                              *)
GatherStuck(bit) ==
  /\ seed' = [seed EXCEPT ![count] = bit]
  /\ seedValid' = Last
  /\ count' = IF Last THEN count ELSE count + 1
  /\ window' = IF Last THEN <<>> ELSE Append(window, bit)
  /\ full' = IF Last THEN Append(window, bit) ELSE full
  /\ completed' = IF Last THEN (completed + 1) % IdSize ELSE completed
  /\ UNCHANGED seedData

(* A valid sample, whose top bit is `bit'.  q_seed_data is never driven.   *)
Gather(bit) ==
  /\ seed' = [seed EXCEPT ![count] = bit]
  /\ seedValid' = Last
  /\ count' = IF Last THEN 0 ELSE count + 1
  /\ window' = IF Last THEN <<>> ELSE Append(window, bit)
  /\ full' = IF Last THEN Append(window, bit) ELSE full
  /\ completed' = IF Last THEN (completed + 1) % IdSize ELSE completed
  /\ UNCHANGED seedData

Stamp(t) == Index(t)

NextId == (sequence + 1) % IdSize

(* The settler sees the pulse one edge after it was set. *)
Settle(t) ==
  IF seedValid
    THEN /\ sequence' = (sequence + 1) % IdSize
         /\ settleId' = NextId
         /\ settleIndex' = Stamp(t)
         /\ settleValid' = TRUE
    ELSE /\ settleValid' = FALSE
         /\ UNCHANGED <<sequence, settleId, settleIndex>>

Edge(t) ==
  /\ Quiet \/ \E bit \in Bit : Gather(bit)
  /\ Settle(t)
  /\ clock' = t

(* Mutant of Reset: a pulse under way survives. *)
ResetKeepsPulse ==
  /\ seed' = [i \in Positions |-> 0] /\ count' = 0
  /\ sequence' = 0 /\ settleValid' = FALSE
  /\ window' = <<>> /\ completed' = 0
  /\ UNCHANGED <<seedValid, seedData, settleId, settleIndex, full, clock>>

(* rst_n: settle_id and settle_index keep their values. *)
Reset ==
  /\ seed' = [i \in Positions |-> 0] /\ count' = 0 /\ seedValid' = FALSE
  /\ sequence' = 0 /\ settleValid' = FALSE
  /\ window' = <<>> /\ completed' = 0
  /\ UNCHANGED <<seedData, settleId, settleIndex, full, clock>>

Next == (\E t \in Time : Edge(t)) \/ Reset

Spec == Init /\ [][Next]_vars

-----------------------------------------------------------------------------
(* Every signal keeps to its VHDL type.                                    *)
TypeOK ==
  /\ seed \in [Positions -> Bit] /\ count \in Positions
  /\ seedValid \in BOOLEAN /\ seedData = Unset
  /\ sequence \in 0 .. IdSize - 1 /\ settleValid \in BOOLEAN
  /\ settleId \in (0 .. IdSize - 1) \cup {Unset}
  /\ window \in Seq(Bit) /\ full \in Seq(Bit)
  /\ completed \in 0 .. IdSize - 1

(* A seed that is announced is exactly the last SeedBits samples, in order *)
(* and without one of its neighbours', although the bits of the next seed  *)
(* go into the same register from the very next edge on.                   *)
SeedWhole ==
  /\ Len(window) = count /\ \A i \in 0 .. count - 1 : seed[i] = window[i + 1]
  /\ seedValid => Len(full) = SeedBits /\ \A i \in Positions : seed[i] = full[i + 1]

(* Since reset, every completed seed is settled exactly once, under        *)
(* consecutive numbers: only one still announced is missing.               *)
SettledOnce ==
  /\ completed = (sequence + (IF seedValid THEN 1 ELSE 0)) % IdSize
  /\ settleValid => settleId = sequence

(* A settlement carries the index of the time at its own edge: one edge    *)
(* after the seed's last bit.                                              *)
StampIsCurrent == settleValid => settleIndex = Index(clock)
=============================================================================
