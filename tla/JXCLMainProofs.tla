--------------------------- MODULE JXCLMainProofs ---------------------------
(***************************************************************************)
(* Theorems about the JXCL program, for every script and every size of the *)
(* trace: its rotation test, phase 12, cannot fail for any word and        *)
(* amount; its trace dump, phase 9, shows the last run only; runs of one   *)
(* program print one result, whatever the machine did before; and the      *)
(* exact interpreter, on registers of bits, implements JXCLMachine, whose  *)
(* registers are numbers, so that what is proved there holds here.         *)
(***************************************************************************)
EXTENDS JXCLMain, SequenceTheorems, FiniteSetTheorems, WellFoundedInduction, TLAPS

-----------------------------------------------------------------------------
(* Every set of natural numbers has a least element.                       *)
LEMMA LeastElement ==
  ASSUME NEW T \in SUBSET Nat, T # {} PROVE \E x \in T : \A y \in T : x <= y
<1> DEFINE R == OpToRel(<, Nat)
<1>1. IsWellFoundedOn(R, Nat)
  BY NatLessThanWellFounded
<1>2. \A x, y \in Nat : x < y => <<x, y>> \in R
  BY DEF OpToRel
<1> HIDE DEF R
<1>3. PICK x \in T : \A y \in T : ~ (<<y, x>> \in R)
  BY <1>1, WFMin
<1>4. \A y \in T : ~(y < x)
  BY <1>2, <1>3
<1>5. \A y \in T : x <= y
  BY <1>4, SMT
<1> QED
  BY <1>5

-----------------------------------------------------------------------------
(* Where a bit of a rotated word comes from.                               *)
LEMMA AmountInRange ==
  ASSUME NEW n \in Nat \ {0}, NEW s \in Nat
  PROVE  s % n \in 0 .. n - 1
BY SMT

LEMMA ShiftLeftBits ==
  ASSUME NEW n, NEW k, NEW a, NEW x
  PROVE  x \in ShiftLeft(a, k, n) <=> x \in 0 .. n - 1 /\ x - k \in a
BY DEF ShiftLeft

LEMMA ShiftRightBits ==
  ASSUME NEW n \in Nat, NEW k \in 0 .. n, NEW a \in SUBSET (0 .. n - 1), NEW x
  PROVE  x \in ShiftRight(a, k) <=> x \in 0 .. n - 1 /\ x + k \in a
<1>1. ASSUME x \in ShiftRight(a, k) PROVE x \in 0 .. n - 1 /\ x + k \in a
  <2>1. PICK i \in a : i >= k /\ x = i - k
    BY <1>1 DEF ShiftRight
  <2>2. i \in 0 .. n - 1
    BY <2>1
  <2>3. x + k = i /\ x \in 0 .. n - 1
    BY <2>1, <2>2, SMT
  <2> QED BY <2>1, <2>3
<1>2. ASSUME x \in 0 .. n - 1, x + k \in a PROVE x \in ShiftRight(a, k)
  <2>1. x + k >= k /\ x = (x + k) - k
    BY <1>2, SMT
  <2> QED BY <1>2, <2>1 DEF ShiftRight
<1> QED BY <1>1, <1>2

LEMMA RolBits ==
  ASSUME NEW n \in Nat \ {0}, NEW s \in Nat, NEW a \in SUBSET (0 .. n - 1), s % n # 0, NEW x
  PROVE  x \in Rol(a, s, n) <=>
           x \in 0 .. n - 1 /\ (x - (s % n) \in a \/ x + (n - (s % n)) \in a)
<1> DEFINE k == s % n
<1>1. k \in 1 .. n - 1 /\ n - k \in 0 .. n
  BY AmountInRange, SMT
<1>2. Rol(a, s, n) = ShiftLeft(a, k, n) \cup ShiftRight(a, n - k)
  BY DEF Rol
<1>3. x \in ShiftRight(a, n - k) <=> x \in 0 .. n - 1 /\ x + (n - k) \in a
  BY <1>1, ShiftRightBits
<1> QED BY <1>2, <1>3, ShiftLeftBits

LEMMA RorBits ==
  ASSUME NEW n \in Nat \ {0}, NEW s \in Nat, NEW a \in SUBSET (0 .. n - 1), s % n # 0, NEW x
  PROVE  x \in Ror(a, s, n) <=>
           x \in 0 .. n - 1 /\ (x + (s % n) \in a \/ x - (n - (s % n)) \in a)
<1> DEFINE k == s % n
<1>1. k \in 1 .. n - 1 /\ k \in 0 .. n
  BY AmountInRange, SMT
<1>2. Ror(a, s, n) = ShiftRight(a, k) \cup ShiftLeft(a, n - k, n)
  BY DEF Ror
<1>3. x \in ShiftRight(a, k) <=> x \in 0 .. n - 1 /\ x + k \in a
  BY <1>1, ShiftRightBits
<1> QED BY <1>2, <1>3, ShiftLeftBits

(* jxcl_ror64 undoes jxcl_rol64 for every word and every amount, those not *)
(* below the width included, and so in 32 and 8 bits: phase 12 of main can *)
(* print no MISMATCH.                                                      *)
THEOREM RotationsInvert ==
  ASSUME NEW n \in Nat \ {0}, NEW s \in Nat, NEW a \in SUBSET (0 .. n - 1)
  PROVE  Ror(Rol(a, s, n), s, n) = a
<1> DEFINE k == s % n
           r == Rol(a, s, n)
<1>1. CASE k = 0
  BY <1>1 DEF Rol, Ror
<1>2. CASE k # 0
  <2>1. k \in 1 .. n - 1
    BY <1>2, AmountInRange, SMT
  <2>2. \A x : x \in r <=> x \in 0 .. n - 1 /\ (x - k \in a \/ x + (n - k) \in a)
    BY <1>2, RolBits
  <2>3. r \in SUBSET (0 .. n - 1)
    BY <2>2
  <2>4. \A x : x \in Ror(r, s, n) <=> x \in 0 .. n - 1 /\ (x + k \in r \/ x - (n - k) \in r)
    BY <1>2, <2>3, RorBits
  <2> HIDE DEF k, r
  <2>5. ASSUME NEW x \in 0 .. n - 1 PROVE x \in Ror(r, s, n) <=> x \in a
    <3>1. x + k \in r <=> x + k <= n - 1 /\ x \in a
      <4>1. /\ x + k \in 0 .. n - 1 <=> x + k <= n - 1
            /\ (x + k) - k = x /\ (x + k) + (n - k) = x + n /\ x + n \notin 0 .. n - 1
        BY <2>1, SMT
      <4> QED BY <2>2, <4>1
    <3>2. x - (n - k) \in r <=> x - (n - k) >= 0 /\ x \in a
      <4>1. /\ x - (n - k) \in 0 .. n - 1 <=> x - (n - k) >= 0
            /\ (x - (n - k)) + (n - k) = x
            /\ (x - (n - k)) - k = x - n /\ x - n \notin 0 .. n - 1
        BY <2>1, SMT
      <4> QED BY <2>2, <4>1
    <3>3. x + k <= n - 1 \/ x - (n - k) >= 0
      BY <2>1, SMT
    <3> QED BY <2>4, <3>1, <3>2, <3>3
  <2> QED BY <2>4, <2>5 DEF r
<1> QED BY <1>1, <1>2

-----------------------------------------------------------------------------
(* What the dump rests on: the first trace_count entries of mem.trace are  *)
(* of this initialisation, in order of time, and none is from the future.  *)
TraceInv ==
  /\ recorded \in 0 .. TraceSize /\ epoch \in Nat
  /\ trace = [i \in 1 .. TraceSize |-> trace[i]]
  /\ \A i \in 1 .. recorded :
       /\ trace[i].boot = boots /\ trace[i].epoch \in Nat /\ trace[i].epoch <= epoch
       /\ \A j \in 1 .. i : trace[j].epoch <= trace[i].epoch

LEMMA TraceInit == Init => TraceInv
BY ExactSizes, SMT DEF ExactSizes, Init, MachineInit, TraceInv

LEMMA EntryFields == Entry.boot = boots /\ Entry.epoch = epoch
BY DEF Entry

LEMMA Transitive ==
  ASSUME NEW a \in Nat, NEW b \in Nat, NEW c \in Nat, a <= b, b <= c
  PROVE  a <= c
BY SMT

LEMMA RecordKeeps ==
  ASSUME TraceInv, Record, boots' = boots, epoch' \in {epoch, epoch + 1}
  PROVE  TraceInv'
<1>1. epoch' \in Nat /\ epoch <= epoch'
  BY SMT DEF TraceInv
<1>2. CASE UNCHANGED tape
  <2>1. trace' = trace /\ recorded' = recorded
    BY <1>2 DEF tape
  <2>2. ASSUME NEW i \in 1 .. recorded PROVE trace[i].epoch <= epoch'
    <3>1. epoch \in Nat /\ trace[i].epoch \in Nat /\ trace[i].epoch <= epoch
      BY DEF TraceInv
    <3> QED BY <3>1, <1>1, Transitive
  <2> QED BY <1>1, <2>1, <2>2 DEF TraceInv
<1>3. CASE /\ recorded < TraceSize /\ recorded' = recorded + 1
           /\ trace' = [trace EXCEPT ![recorded + 1] = Entry]
  <2> DEFINE n == recorded + 1
  <2>1. n \in 1 .. TraceSize /\ recorded' \in 0 .. TraceSize /\ n \notin 1 .. recorded
        /\ 1 .. recorded \subseteq 1 .. TraceSize
    BY <1>3, ExactSizes, SMT DEF ExactSizes, TraceInv
  <2>2. trace' = [i \in 1 .. TraceSize |-> trace'[i]]
    BY <1>3 DEF TraceInv
  <2>3. trace'[n] = Entry
    BY <1>3, <2>1 DEF TraceInv
  <2>4. \A i \in 1 .. recorded : trace'[i] = trace[i]
    BY <1>3, <2>1 DEF TraceInv
  <2>5. ASSUME NEW i \in 1 .. recorded'
        PROVE  /\ trace'[i].boot = boots' /\ trace'[i].epoch \in Nat
               /\ trace'[i].epoch <= epoch'
               /\ \A j \in 1 .. i : trace'[j].epoch <= trace'[i].epoch
    <3>1. CASE i \in 1 .. recorded
      <4>1. trace'[i] = trace[i] /\ \A j \in 1 .. i : trace'[j] = trace[j]
        <5>1. 1 .. i \subseteq 1 .. recorded
          BY <3>1, SMT DEF TraceInv
        <5> QED BY <3>1, <2>4, <5>1
      <4>2. trace[i].epoch <= epoch'
        <5>1. epoch \in Nat /\ trace[i].epoch \in Nat /\ trace[i].epoch <= epoch
          BY <3>1 DEF TraceInv
        <5> QED BY <5>1, <1>1, Transitive
      <4> QED BY <3>1, <4>1, <4>2 DEF TraceInv
    <3>2. CASE i = n
      <4>1. trace'[i].boot = boots' /\ trace'[i].epoch = epoch
        BY <3>2, <2>3, EntryFields
      <4>2. ASSUME NEW j \in 1 .. i PROVE trace'[j].epoch <= epoch
        <5>1. j \in 1 .. recorded \/ j = n
          BY <3>2, SMT DEF TraceInv
        <5>2. CASE j = n
          BY <5>2, <3>2, <4>1, SMT DEF TraceInv
        <5>3. CASE j \in 1 .. recorded
          BY <5>3, <2>4 DEF TraceInv
        <5> QED BY <5>1, <5>2, <5>3
      <4> QED BY <1>1, <4>1, <4>2 DEF TraceInv
    <3>3. i \in 1 .. recorded \/ i = n
      BY <1>3, SMT DEF TraceInv
    <3> QED BY <3>1, <3>2, <3>3
  <2> QED BY <1>1, <2>1, <2>2, <2>5 DEF TraceInv
<1> QED BY <1>2, <1>3 DEF Record

(* One lemma for what the driver does, one for the machine.                *)
LEMMA BootKeeps ==
  ASSUME TraceInv, NEW d, NEW instrs, NEW inject, Boot(d, instrs, inject)
  PROVE  TraceInv'
<1>1. recorded' = 0 /\ epoch' = 0 /\ trace' = trace
  BY DEF Boot, ClearTrace, ClearState
<1>2. 0 \in 0 .. TraceSize /\ 1 .. recorded' = {}
  BY <1>1, ExactSizes, SMT DEF ExactSizes
<1> QED BY <1>1, <1>2 DEF TraceInv

LEMMA IdleKeeps ==
  ASSUME TraceInv, UNCHANGED <<tape, boots, epoch>>
  PROVE  TraceInv'
BY DEF TraceInv, tape

LEMMA RunningKeeps ==
  ASSUME TraceInv, EndRun \/ Step
  PROVE  TraceInv'
<1>1. CASE EndRun \/ RunOffEnd \/ Reject
  <2>1. UNCHANGED <<tape, boots, epoch>>
    BY <1>1 DEF EndRun, RunOffEnd, Reject, core, setup
  <2> QED BY <2>1, IdleKeeps
<1>2. CASE \/ StopOp \/ TrapOp \/ Xchg \/ Emit \/ RecurseBottom \/ RecurseTooDeep
           \/ RecursePush \/ Compute
  <2>1. \E ops : Executing(ops)
    BY <1>2 DEF StopOp, TrapOp, Xchg, Emit, RecurseBottom, RecurseTooDeep, RecursePush, Compute
  <2>2. Record /\ boots' = boots
    BY <2>1 DEF Executing, setup
  <2>3. epoch' \in {epoch, epoch + 1}
    BY <1>2 DEF StopOp, TrapOp, Xchg, Emit, RecurseBottom, RecurseTooDeep, RecursePush,
       Compute, Advance, core
  <2> QED BY <2>2, <2>3, RecordKeeps
<1> QED BY <1>1, <1>2 DEF Step

LEMMA TraceStep == TraceInv /\ [Next]_vars => TraceInv'
<1> SUFFICES ASSUME TraceInv, [Next]_vars PROVE TraceInv'
  OBVIOUS
<1>1. CASE SelfTest \/ Verdict \/ MixColumns \/ Doubling \/ Rotations \/ Fibonacci
           \/ Multiply \/ Collect \/ ReadWord \/ EndRead \/ Dump \/ UNCHANGED vars
  <2>1. UNCHANGED machine
    BY <1>1 DEF SelfTest, Verdict, MixColumns, Doubling, Rotations, Fibonacci, Multiply,
       Report, Show, Collect, ReadWord, EndRead, Dump, vars
  <2>2. UNCHANGED <<tape, boots, epoch>>
    BY <2>1 DEF machine, setup, core
  <2> QED BY <2>2, IdleKeeps
<1>2. CASE Prepare \/ PrepareRead
  BY <1>2, BootKeeps DEF Prepare, PrepareRead
<1>3. CASE Launch
  <2>1. UNCHANGED <<tape, boots, epoch>>
    BY <1>3 DEF Launch, StartRun, setup, core
  <2> QED BY <2>1, IdleKeeps
<1>4. CASE Running
  BY <1>4, RunningKeeps DEF Running
<1> QED BY <1>1, <1>2, <1>3, <1>4 DEF Next

LEMMA DumpStep ==
  ASSUME TraceInv, Dump
  PROVE  \A i \in 1 .. Len(dumped') :
           /\ dumped'[i].boot = boots
           /\ \A j \in 1 .. i : dumped'[j].epoch <= dumped'[i].epoch
<1> DEFINE n == DumpCount
<1>1. n \in 0 .. recorded /\ n \in 0 .. TraceSize
  BY DriverSizes, ExactSizes, SMT DEF DriverSizes, ExactSizes, DumpCount, TraceInv
<1>2. trace \in Seq({trace[i] : i \in 1 .. TraceSize})
  BY ExactSizes DEF ExactSizes, TraceInv
<1>3. Len(trace) = TraceSize
  BY <1>2, ExactSizes DEF ExactSizes, TraceInv
<1> HIDE DEF n
<1>4. Len(SubSeq(trace, 1, n)) = n /\ \A i \in 1 .. n : SubSeq(trace, 1, n)[i] = trace[i]
  <2>1. CASE n = 0
    BY <2>1, <1>2, <1>3, SMT
  <2>2. CASE n \in 1 .. TraceSize
    BY <2>2, <1>2, <1>3, ExactSizes, SMT DEF ExactSizes
  <2> QED BY <1>1, <2>1, <2>2, SMT
<1>5. dumped' = SubSeq(trace, 1, n)
  BY DEF Dump, n
<1>6. 1 .. n \subseteq 1 .. recorded /\ \A i \in 1 .. n : 1 .. i \subseteq 1 .. n
  BY <1>1, SMT DEF TraceInv
<1> QED BY <1>4, <1>5, <1>6 DEF TraceInv

(* Phase 9 prints entries of the last initialisation only, in order of     *)
(* time, although mem.trace still holds those of earlier and longer runs.  *)
THEOREM DumpFaithful == Spec => DumpIsOfLastRun
<1> DEFINE A == dumped' # dumped =>
                  \A i \in 1 .. Len(dumped') :
                    /\ dumped'[i].boot = boots
                    /\ \A j \in 1 .. i : dumped'[j].epoch <= dumped'[i].epoch
<1>1. TraceInv /\ [Next]_vars => [A]_vars
  <2> SUFFICES ASSUME TraceInv, Next, dumped' # dumped PROVE A
    BY DEF vars, driver
  <2>1. Dump
    BY DEF Next, SelfTest, Verdict, MixColumns, Doubling, Rotations, Fibonacci, Multiply,
       Report, Show, Prepare, Launch, Running, Collect, PrepareRead, ReadWord, EndRead, driver
  <2> QED BY <2>1, DumpStep
<1> QED BY <1>1, TraceInit, TraceStep, PTL DEF Spec, DumpIsOfLastRun
-----------------------------------------------------------------------------
(* A run as a computation on data: what a step makes of the state of the   *)
(* machine, as far as an instruction can read it or the driver prints it.  *)
CallState ==
  [frame |-> frame, regs |-> regs, q |-> q, depth |-> depth, epoch |-> epoch, stack |-> stack,
   output |-> output, halted |-> halted, error |-> error, running |-> running, steps |-> steps,
   budget |-> budget, returned |-> returned]

Computed == Opcodes \ {"HALT", "TRAP", "XCHG", "EMIT", "RECURSE"}

NextInstr(x) == x.frame[Number(x.regs["PC"]) + 1]
ReadFrom(rs, r) == IF r \in Regs THEN rs[r] ELSE {}

(* The path the next step takes: an operation, or what comes instead.      *)
Path(x) ==
  IF x.halted \/ ~(x.steps < x.budget) THEN "end"
  ELSE IF ~(Number(x.regs["PC"]) < Len(x.frame)) THEN "off"
  ELSE IF NextInstr(x).op \notin Opcodes \/ Illegal(NextInstr(x)) # {} THEN "reject"
  ELSE IF NextInstr(x).op # "RECURSE" THEN NextInstr(x).op
  ELSE IF Number(x.regs["DEPTH"]) = 0 THEN "bottom"
  ELSE IF Number(x.regs["DEPTH"]) > MaxDepth THEN "deep"
  ELSE IF Len(x.stack) >= StackSize THEN "overflow" ELSE "push"

Fails == {"reject", "TRAP", "deep", "overflow"}
Advances == Computed \cup {"bottom", "push"}

RegsAfter(x, w) ==
  LET i == NextInstr(x)
      a == ReadFrom(x.regs, i.src0)
      b == ReadFrom(x.regs, i.src1)
      f == x.regs["FLAGS"]
      r == Result(i, f, a, b)
      flagged == [x.regs EXCEPT !["FLAGS"] = Flags(i, f, a, b, r)]
      back == IF i.writeback THEN Written(flagged, i.dst, r) ELSE flagged
      op == Number(Lo32(x.regs["OUT_PTR"]))
  IN IF w \in Computed THEN IF i.op = "ACC" THEN [back EXCEPT !["ACC0"] = Xor(@, r)] ELSE back
     ELSE IF w = "XCHG" /\ i.src0 # "none" /\ i.dst # "none"
       THEN Written(Written(x.regs, i.dst, a), i.src0, ReadFrom(x.regs, i.dst))
     ELSE IF w = "EMIT" /\ op < OutputSize THEN [x.regs EXCEPT !["OUT_PTR"] = Bits(op + 1)]
     ELSE IF w = "push" THEN [x.regs EXCEPT !["DEPTH"] = Bits(Number(x.regs["DEPTH"]) - 1)]
     ELSE x.regs

ResultAfter(x, w) ==
  LET i == NextInstr(x)
  IN IF w \in Computed
       THEN Result(i, x.regs["FLAGS"], ReadFrom(x.regs, i.src0), ReadFrom(x.regs, i.src1)) ELSE {}

OutputAfter(x, w) ==
  LET op == Number(Lo32(x.regs["OUT_PTR"]))
  IN IF w = "EMIT" /\ op < OutputSize
       THEN [s \in DOMAIN x.output \cup {op} |->
               IF s = op THEN Fold64(x.q[1], x.q[2], x.q[3], x.q[4]) ELSE x.output[s]]
       ELSE x.output

ErrorAfter(x, w) ==
  IF w = "reject" THEN IF Illegal(NextInstr(x)) # {} THEN "ILLEGAL_REG" ELSE "ILLEGAL_OPCODE"
  ELSE IF w = "TRAP" THEN "ILLEGAL_OPCODE"
  ELSE IF w = "deep" THEN "DEPTH_EXCEEDED"
  ELSE IF w = "overflow" THEN "STACK_OVERFLOW" ELSE x.error

AfterBy(x, w) ==
  [frame |-> x.frame,
   regs |-> RegsAfter(x, w),
   q |-> IF w \in Advances THEN <<ResultAfter(x, w), x.q[1], x.q[2], x.q[3]>> ELSE x.q,
   depth |-> IF w = "push" THEN Number(x.regs["DEPTH"]) - 1 ELSE x.depth,
   epoch |-> IF w \in Advances \/ w = "XCHG" THEN x.epoch + 1 ELSE x.epoch,
   stack |-> IF w = "push" THEN Pushed(x.stack, x.q, x.depth) ELSE x.stack,
   output |-> OutputAfter(x, w),
   halted |-> IF w \in Fails \/ w \in {"off", "HALT"} THEN TRUE ELSE x.halted,
   error |-> ErrorAfter(x, w),
   running |-> IF w \in Fails \/ w = "end" THEN FALSE ELSE x.running,
   steps |-> IF w \in Fails \/ w = "end" THEN x.steps ELSE x.steps + 1,
   budget |-> x.budget,
   returned |-> IF w \in Fails THEN <<{}>>
                ELSE IF w = "end" THEN <<Fold64(x.q[1], x.q[2], x.q[3], x.q[4])>> ELSE x.returned]

After(x) == AfterBy(x, Path(x))

LEMMA StateFields ==
  /\ CallState.frame = frame /\ CallState.regs = regs /\ CallState.q = q
  /\ CallState.depth = depth /\ CallState.epoch = epoch /\ CallState.stack = stack
  /\ CallState.output = output /\ CallState.halted = halted /\ CallState.error = error
  /\ CallState.running = running /\ CallState.steps = steps /\ CallState.budget = budget
  /\ CallState.returned = returned
BY DEF CallState

(* It is enough to compare field by field.                                 *)
LEMMA StateAfter ==
  ASSUME NEW w,
         frame' = frame, budget' = budget, regs' = RegsAfter(CallState, w),
         q' = (IF w \in Advances THEN <<ResultAfter(CallState, w), q[1], q[2], q[3]>> ELSE q),
         depth' = (IF w = "push" THEN Number(regs["DEPTH"]) - 1 ELSE depth),
         epoch' = (IF w \in Advances \/ w = "XCHG" THEN epoch + 1 ELSE epoch),
         stack' = (IF w = "push" THEN Pushed(stack, q, depth) ELSE stack),
         output' = OutputAfter(CallState, w),
         halted' = (IF w \in Fails \/ w \in {"off", "HALT"} THEN TRUE ELSE halted),
         error' = ErrorAfter(CallState, w),
         running' = (IF w \in Fails \/ w = "end" THEN FALSE ELSE running),
         steps' = (IF w \in Fails \/ w = "end" THEN steps ELSE steps + 1),
         returned' = (IF w \in Fails THEN <<{}>> ELSE IF w = "end" THEN <<StateResult>> ELSE returned)
  PROVE  CallState' = AfterBy(CallState, w)
<1> DEFINE x == CallState
<1>1. CallState' =
        [frame |-> frame', regs |-> regs', q |-> q', depth |-> depth', epoch |-> epoch',
         stack |-> stack', output |-> output', halted |-> halted', error |-> error',
         running |-> running', steps |-> steps', budget |-> budget', returned |-> returned']
  BY DEF CallState
<1>2. /\ x.frame = frame /\ x.regs = regs /\ x.q = q /\ x.depth = depth /\ x.epoch = epoch
      /\ x.stack = stack /\ x.halted = halted /\ x.running = running /\ x.steps = steps
      /\ x.budget = budget /\ x.returned = returned
  BY StateFields
<1> HIDE DEF x
<1> QED BY <1>1, <1>2, ZenonT(40) DEF AfterBy, StateResult, x

LEMMA StringsDiffer ==
  /\ Fails \cap Advances = {} /\ {"end", "off", "HALT", "XCHG", "EMIT"} \cap (Fails \cup Advances) = {}
  /\ Fails \cap Opcodes = {"TRAP"} /\ {"end", "off", "bottom", "push"} \cap Opcodes = {}
  /\ {"reject", "deep", "overflow", "bottom", "push"} \cap Computed = {}
BY DEF Fails, Advances, Computed, Opcodes

(* Each action takes the path its guard describes and does what the path   *)
(* says.                                                                   *)
LEMMA EndAfter ==
  ASSUME EndRun, steps \in Nat, budget \in Nat
  PROVE  CallState' = After(CallState)
<1>1. Path(CallState) = "end"
  <2>1. halted \/ ~(steps < budget)
    BY SMT DEF EndRun
  <2> QED BY <2>1, StateFields DEF Path
<1>2. CallState' = AfterBy(CallState, "end")
  BY StateAfter, StateFields, StringsDiffer
     DEF EndRun, setup, core, RegsAfter, OutputAfter, ErrorAfter, Computed, Opcodes, Fails, Advances
<1> QED BY <1>1, <1>2 DEF After

LEMMA OffAfter ==
  ASSUME RunOffEnd
  PROVE  CallState' = After(CallState)
<1>1. Path(CallState) = "off"
  BY StateFields DEF Path, RunOffEnd, Stepping, InFrame
<1>2. CallState' = AfterBy(CallState, "off")
  BY StateAfter, StateFields
     DEF RunOffEnd, Halt, setup, core, RegsAfter, OutputAfter, ErrorAfter, Computed, Opcodes, Fails, Advances
<1> QED BY <1>1, <1>2 DEF After

LEMMA FetchedIs == NextInstr(CallState) = Fetched
BY StateFields DEF NextInstr, Fetched

LEMMA RejectAfter ==
  ASSUME Reject
  PROVE  CallState' = After(CallState)
<1>1. Path(CallState) = "reject"
  BY StateFields, FetchedIs DEF Path, Reject, Stepping, InFrame
<1>2. CallState' = AfterBy(CallState, "reject")
  BY StateAfter, StateFields, FetchedIs
     DEF Reject, Fail, setup, core, RegsAfter, OutputAfter, ErrorAfter, Computed, Opcodes, Fails, Advances
<1> QED BY <1>1, <1>2 DEF After

LEMMA ExecutingPath ==
  ASSUME NEW ops, Executing(ops), ops \subseteq Opcodes
  PROVE  /\ Fetched.op \in ops
         /\ Path(CallState) =
              IF Fetched.op # "RECURSE" THEN Fetched.op
              ELSE IF D = 0 THEN "bottom" ELSE IF D > MaxDepth THEN "deep"
              ELSE IF Len(stack) >= StackSize THEN "overflow" ELSE "push"
         /\ frame' = frame
BY StateFields, FetchedIs DEF Executing, Stepping, InFrame, Path, D, setup

LEMMA StopAfter ==
  ASSUME StopOp
  PROVE  CallState' = After(CallState)
<1>1. Path(CallState) = "HALT" /\ frame' = frame
  BY ExecutingPath DEF StopOp, Opcodes
<1>2. CallState' = AfterBy(CallState, "HALT")
  BY <1>1, StateAfter, StateFields
     DEF StopOp, Halt, core, RegsAfter, OutputAfter, ErrorAfter, Computed, Opcodes, Fails, Advances
<1> QED BY <1>1, <1>2 DEF After

LEMMA TrapAfter ==
  ASSUME TrapOp
  PROVE  CallState' = After(CallState)
<1>1. Path(CallState) = "TRAP" /\ frame' = frame
  BY ExecutingPath DEF TrapOp, Opcodes
<1>2. CallState' = AfterBy(CallState, "TRAP")
  BY <1>1, StateAfter, StateFields
     DEF TrapOp, Fail, core, RegsAfter, OutputAfter, ErrorAfter, Computed, Opcodes, Fails, Advances
<1> QED BY <1>1, <1>2 DEF After

LEMMA ReadIs == \A r : ReadFrom(regs, r) = Read(r)
BY DEF ReadFrom, Read

LEMMA XchgAfter ==
  ASSUME Xchg
  PROVE  CallState' = After(CallState)
<1>1. Path(CallState) = "XCHG" /\ frame' = frame
  BY ExecutingPath DEF Xchg, Opcodes
<1>2. regs' = RegsAfter(CallState, "XCHG")
  BY StateFields, FetchedIs, ReadIs DEF Xchg, RegsAfter, Computed
<1>3. CallState' = AfterBy(CallState, "XCHG")
  BY <1>1, <1>2, StateAfter, StateFields
     DEF Xchg, Fine, OutputAfter, ErrorAfter, Computed, Opcodes, Fails, Advances
<1> QED BY <1>1, <1>3 DEF After

LEMMA EmitAfter ==
  ASSUME Emit
  PROVE  CallState' = After(CallState)
<1>1. Path(CallState) = "EMIT" /\ frame' = frame
  BY ExecutingPath DEF Emit, Opcodes
<1>2. regs' = RegsAfter(CallState, "EMIT") /\ output' = OutputAfter(CallState, "EMIT")
  <2> DEFINE op == Number(Lo32(regs["OUT_PTR"]))
  <2>1. "EMIT" \notin Computed
    BY DEF Computed
  <2>2. OutputAfter(CallState, "EMIT") =
          IF op < OutputSize
            THEN [s \in DOMAIN output \cup {op} |-> IF s = op THEN StateResult ELSE output[s]]
            ELSE output
    BY StateFields, Zenon DEF OutputAfter, StateResult
  <2>3. RegsAfter(CallState, "EMIT") =
          IF op < OutputSize THEN [regs EXCEPT !["OUT_PTR"] = Bits(op + 1)] ELSE regs
    BY <2>1, StateFields DEF RegsAfter
  <2>4. /\ op < OutputSize =>
             /\ output' = [s \in DOMAIN output \cup {op} |->
                            IF s = op THEN StateResult ELSE output[s]]
             /\ regs' = [regs EXCEPT !["OUT_PTR"] = Bits(op + 1)]
        /\ ~(op < OutputSize) => output' = output /\ regs' = regs
    BY Zenon DEF Emit
  <2> QED BY <2>2, <2>3, <2>4, Zenon
<1>3. Fine /\ UNCHANGED <<q, depth, epoch, stack>>
  BY DEF Emit
<1>4. CallState' = AfterBy(CallState, "EMIT")
  BY <1>1, <1>2, <1>3, StateAfter, StateFields
     DEF Fine, ErrorAfter, Computed, Opcodes, Fails, Advances
<1> QED BY <1>1, <1>4 DEF After

LEMMA BottomAfter ==
  ASSUME RecurseBottom
  PROVE  CallState' = After(CallState)
<1>1. Path(CallState) = "bottom" /\ frame' = frame
  BY ExecutingPath DEF RecurseBottom, Opcodes
<1>2. CallState' = AfterBy(CallState, "bottom")
  BY <1>1, StateAfter, StateFields
     DEF RecurseBottom, Advance, Fine, RegsAfter, ResultAfter, OutputAfter, ErrorAfter, Computed,
         Opcodes, Fails, Advances
<1> QED BY <1>1, <1>2 DEF After

LEMMA DeepAfter ==
  ASSUME RecurseTooDeep
  PROVE  CallState' = After(CallState)
<1>1. Path(CallState) = "deep" /\ frame' = frame
  <2>1. D # 0 /\ D > MaxDepth
    BY ExactSizes, SMT DEF RecurseTooDeep, ExactSizes
  <2> QED BY <2>1, ExecutingPath DEF RecurseTooDeep, Opcodes
<1>2. CallState' = AfterBy(CallState, "deep")
  BY <1>1, StateAfter, StateFields
     DEF RecurseTooDeep, Fail, core, RegsAfter, OutputAfter, ErrorAfter, Computed, Opcodes, Fails, Advances
<1> QED BY <1>1, <1>2 DEF After

LEMMA PushAfter ==
  ASSUME RecursePush
  PROVE  CallState' = After(CallState)
<1>1. D # 0 /\ ~(D > MaxDepth)
  BY ExactSizes, SMT DEF RecursePush, ExactSizes
<1>2. CASE Len(stack) >= StackSize
  <2>1. Path(CallState) = "overflow" /\ frame' = frame
    BY <1>1, <1>2, ExecutingPath DEF RecursePush, Opcodes
  <2>2. CallState' = AfterBy(CallState, "overflow")
    BY <1>2, <2>1, StateAfter, StateFields
       DEF RecursePush, Fail, core, RegsAfter, OutputAfter, ErrorAfter, Computed, Opcodes, Fails, Advances
  <2> QED BY <2>1, <2>2 DEF After
<1>3. CASE ~(Len(stack) >= StackSize)
  <2>1. Path(CallState) = "push" /\ frame' = frame
    BY <1>1, <1>3, ExecutingPath DEF RecursePush, Opcodes
  <2>2. CallState' = AfterBy(CallState, "push")
    BY <1>3, <2>1, StateAfter, StateFields
       DEF RecursePush, Advance, Fine, D, RegsAfter, ResultAfter, OutputAfter, ErrorAfter, Computed,
           Opcodes, Fails, Advances
  <2> QED BY <2>1, <2>2 DEF After
<1> QED BY <1>2, <1>3

LEMMA ComputeAfter ==
  ASSUME Compute
  PROVE  CallState' = After(CallState)
<1> DEFINE w == Fetched.op
<1>1. w \in Computed /\ Path(CallState) = w /\ frame' = frame
  BY ExecutingPath DEF Compute, Computed, Opcodes
<1>2. w \in Advances /\ w \notin Fails \cup {"end", "off", "HALT", "XCHG", "EMIT", "push"}
  BY <1>1, StringsDiffer DEF Computed, Advances
<1>3. regs' = RegsAfter(CallState, w)
  <2> DEFINE a == Read(Fetched.src0)
             b == Read(Fetched.src1)
             f == regs["FLAGS"]
             r == Result(Fetched, f, a, b)
             flagged == [regs EXCEPT !["FLAGS"] = Flags(Fetched, f, a, b, r)]
             back == IF Fetched.writeback THEN Written(flagged, Fetched.dst, r) ELSE flagged
             all == IF Fetched.op = "ACC" THEN [back EXCEPT !["ACC0"] = Xor(@, r)] ELSE back
  <2>1. regs' = all
    BY Zenon DEF Compute
  <2>2. RegsAfter(CallState, w) = all
    BY <1>1, StateFields, FetchedIs, ReadIs, Zenon DEF RegsAfter
  <2> QED BY <2>1, <2>2
<1>4. q' = <<ResultAfter(CallState, w), q[1], q[2], q[3]>> /\ epoch' = epoch + 1
  BY <1>1, StateFields, FetchedIs, ReadIs DEF Compute, Advance, ResultAfter
<1>5. output' = OutputAfter(CallState, w) /\ error' = ErrorAfter(CallState, w)
  BY <1>2, StateFields DEF Compute, Fine, OutputAfter, ErrorAfter, Fails
<1> HIDE DEF w
<1>6. CallState' = AfterBy(CallState, w)
  BY <1>1, <1>2, <1>3, <1>4, <1>5, StateAfter DEF Compute, Fine
<1> QED BY <1>1, <1>6 DEF After

LEMMA StepAfter ==
  ASSUME Step
  PROVE  CallState' = After(CallState)
BY OffAfter, RejectAfter, StopAfter, TrapAfter, XchgAfter, EmitAfter, BottomAfter, DeepAfter,
   PushAfter, ComputeAfter DEF Step
-----------------------------------------------------------------------------
(* From a fresh start a run goes through one sequence of states only, so   *)
(* two runs that have returned from the same start agree.                  *)
Fresh(f, d, on, max) ==
  LET c == IF d > MaxDepth THEN MaxDepth ELSE d
  IN [frame |-> Built(f), regs |-> BootRegs(c), q |-> NoState, depth |-> c, epoch |-> 0,
      stack |-> <<>>, output |-> <<>>, halted |-> FALSE, error |-> "OK", running |-> on,
      steps |-> 0, budget |-> max, returned |-> <<>>]

LEMMA BootFresh ==
  ASSUME NEW d, NEW instrs, NEW inject, Boot(d, instrs, inject)
  PROVE  CallState' = Fresh(instrs, d, FALSE, 0)
BY Zenon DEF Boot, ClearState, CallState, Fresh

LEMMA StartFresh ==
  ASSUME NEW f, NEW d, NEW max, CallState = Fresh(f, d, FALSE, 0), StartRun(max)
  PROVE  CallState' = Fresh(f, d, TRUE, max)
<1> DEFINE c == IF d > MaxDepth THEN MaxDepth ELSE d
<1>1. /\ frame = Built(f) /\ regs = BootRegs(c) /\ q = NoState /\ depth = c /\ epoch = 0
      /\ stack = <<>> /\ output = <<>> /\ halted = FALSE /\ error = "OK" /\ returned = <<>>
  BY StateFields DEF Fresh
<1>2. /\ frame' = frame /\ regs' = regs /\ q' = q /\ depth' = depth /\ epoch' = epoch
      /\ stack' = stack /\ output' = output /\ halted' = halted /\ error' = error
      /\ returned' = returned /\ running' = TRUE /\ steps' = 0 /\ budget' = max
  BY DEF StartRun, setup, core
<1> QED BY <1>1, <1>2, Zenon DEF CallState, Fresh

(* h is a computation of k steps from s to x.                              *)
Computation(h, k, s, x) ==
  /\ h[0] = s /\ h[k] = x
  /\ \A i \in 0 .. k - 1 : h[i].returned = <<>> /\ h[i + 1] = After(h[i])

Leads(s, x) == \E k \in Nat : \E h : Computation(h, k, s, x)

LEMMA LeadsToItself == ASSUME NEW s PROVE Leads(s, s)
<1> DEFINE h == [i \in {0} |-> s]
<1>1. 0 .. 0 - 1 = {} /\ h[0] = s
  BY SMT
<1>2. Computation(h, 0, s, s)
  BY <1>1 DEF Computation
<1> QED BY <1>2 DEF Leads

LEMMA LeadsOn ==
  ASSUME NEW s, NEW x, Leads(s, x), x.returned = <<>>
  PROVE  Leads(s, After(x))
<1>0. PICK k \in Nat : \E h : Computation(h, k, s, x)
  BY DEF Leads
<1>1. PICK h : Computation(h, k, s, x)
  BY <1>0
<1> DEFINE g == [i \in 0 .. k + 1 |-> IF i = k + 1 THEN After(x) ELSE h[i]]
<1>2. /\ k + 1 \in 0 .. k + 1 /\ 0 \in 0 .. k + 1 /\ 0 # k + 1
      /\ \A i \in 0 .. (k + 1) - 1 :
           /\ i \in 0 .. k + 1 /\ i # k + 1 /\ i + 1 \in 0 .. k + 1
           /\ i # k => i \in 0 .. k - 1 /\ i + 1 # k + 1
      /\ k \in 0 .. k + 1
  BY SMT
<1>3. g[0] = s /\ g[k + 1] = After(x)
  BY <1>1, <1>2 DEF Computation
<1>4. ASSUME NEW i \in 0 .. (k + 1) - 1
      PROVE  g[i].returned = <<>> /\ g[i + 1] = After(g[i])
  <2>1. g[i] = h[i]
    BY <1>2
  <2>2. CASE i = k
    BY <1>1, <1>3, <2>1, <2>2 DEF Computation
  <2>3. CASE i # k
    <3>1. i \in 0 .. k - 1 /\ g[i + 1] = h[i + 1]
      BY <1>2, <2>3
    <3> QED BY <1>1, <2>1, <3>1 DEF Computation
  <2> QED BY <1>2, <2>2, <2>3
<1>5. k + 1 \in Nat
  BY SMT
<1> HIDE DEF g
<1> QED BY <1>3, <1>4, <1>5 DEF Computation, Leads

LEMMA SameComputation ==
  ASSUME NEW s, NEW x, NEW y, NEW h, NEW g, NEW k \in Nat, NEW m \in Nat,
         Computation(h, k, s, x), Computation(g, m, s, y), x.returned # <<>>, k <= m
  PROVE  x = y /\ k = m
<1> DEFINE T == {i \in 0 .. k : h[i] # g[i]}
<1>1. T = {}
  <2> SUFFICES ASSUME T # {} PROVE FALSE
    OBVIOUS
  <2>1. PICK i \in T : \A j \in T : i <= j
    <3>1. T \in SUBSET Nat
      OBVIOUS
    <3> QED BY <3>1, LeastElement
  <2>2. i # 0
    BY DEF Computation
  <2> DEFINE j == i - 1
  <2>3. j \in 0 .. k /\ j \in 0 .. k - 1 /\ j \in 0 .. m - 1 /\ i = j + 1 /\ ~(i <= j)
    BY <2>2, SMT
  <2>4. h[j] = g[j]
    BY <2>1, <2>3
  <2> QED BY <2>3, <2>4 DEF Computation
<1>2. k \in 0 .. k /\ (k = m \/ k \in 0 .. m - 1)
  BY SMT
<1>3. h[k] = g[k]
  BY <1>1, <1>2
<1> QED BY <1>2, <1>3 DEF Computation

LEMMA SameEnd ==
  ASSUME NEW s, NEW x, NEW y, Leads(s, x), Leads(s, y), x.returned # <<>>, y.returned # <<>>
  PROVE  x = y
<1>1. PICK k \in Nat : \E h : Computation(h, k, s, x)
  BY DEF Leads
<1>2. PICK m \in Nat : \E g : Computation(g, m, s, y)
  BY DEF Leads
<1>3. k <= m \/ m <= k
  BY SMT
<1> QED BY <1>1, <1>2, <1>3, SameComputation

-----------------------------------------------------------------------------
(* Every call printed was a run from a fresh start to its end; the machine *)
(* is on such a way whenever the driver is inside a run.                   *)
Way(r, x) == Leads(Fresh(r.frame, r.depth, TRUE, r.max), x)

OnTheWay ==
  ready /\ Inside("run") =>
    IF ~running /\ returned = <<>> THEN CallState = Fresh(Segment.frame, Segment.depth, FALSE, 0)
    ELSE Way(Segment, CallState)

Printed ==
  /\ calls \in Seq({calls[c] : c \in 1 .. Len(calls)})
  /\ \A c \in 1 .. Len(calls) : \E x :
       /\ Way(script[calls[c].at], x) /\ x.returned # <<>>
       /\ calls[c].result = x.returned[1] /\ calls[c].epoch = x.epoch
       /\ calls[c].halted = x.halted

Driven ==
  /\ script \in Scripts /\ at \in Nat \ {0}
  /\ steps \in Nat /\ budget \in Nat
  /\ returned # <<>> => ~running
  /\ ready => Inside("run") \/ Inside("read")
  /\ running => ready /\ Inside("run")

CallInv == Driven /\ OnTheWay /\ Printed

LEMMA CallInit == Init => CallInv
<1> SUFFICES ASSUME Init PROVE CallInv
  OBVIOUS
<1>1. Len(<<>>) = 0 /\ 1 .. 0 = {} /\ <<>> \in Seq({})
  BY EmptySeq, SMT
<1>2. Driven
  BY SMT DEF Init, MachineInit, Driven
<1>3. OnTheWay
  BY DEF Init, OnTheWay
<1>4. Printed
  <2>1. calls = <<>>
    BY DEF Init
  <2>2. {calls[c] : c \in 1 .. Len(calls)} = {}
    BY <1>1, <2>1
  <2> QED BY <1>1, <2>1, <2>2 DEF Printed
<1> QED BY <1>2, <1>3, <1>4 DEF CallInv

(* Steps that leave the calls and the script alone.                        *)
LEMMA PrintedStays ==
  ASSUME Printed, calls' = calls, script' = script PROVE Printed'
BY DEF Printed

LEMMA SegmentNames ==
  /\ \A i \in 1 .. 7 : Groups[i] \notin {"run", "read"}
  /\ \A what \in {"verdict", "mixcolumns", "doubling", "rotations", "fibonacci", "products", "dump"} :
       what \notin {"run", "read"}
<1>1. 1 .. 7 = {1, 2, 3, 4, 5, 6, 7}
  BY SMT
<1> QED BY <1>1 DEF Groups

LEMMA InsideOne == \A v, w : Inside(v) /\ Inside(w) => v = w
BY DEF Inside

(* The phases that do not run the machine: none is inside a run.           *)
LEMMA PhaseCalls ==
  ASSUME CallInv, NEW what, Inside(what), what \notin {"run", "read"},
         UNCHANGED <<machine, script, ready, calls>>, at' \in {at, at + 1}
  PROVE  CallInv'
<1>1. ~ready /\ ~running
  BY InsideOne DEF CallInv, Driven
<1>2. ~ready' /\ ~running' /\ UNCHANGED <<steps, budget, returned>>
  BY <1>1 DEF machine, control
<1>3. at' \in Nat \ {0}
  BY SMT DEF CallInv, Driven
<1>4. Driven'
  BY <1>2, <1>3 DEF CallInv, Driven
<1>5. OnTheWay'
  BY <1>2 DEF OnTheWay
<1>6. Printed'
  BY PrintedStays DEF CallInv
<1> QED BY <1>4, <1>5, <1>6 DEF CallInv

LEMMA PrepareCalls ==
  ASSUME CallInv, Prepare PROVE CallInv'
<1>1. /\ UNCHANGED <<script, at, aborted, calls>> /\ ready' = TRUE /\ Inside("run")
      /\ Boot(Segment.depth, Segment.frame, Segment.inject)
  BY DEF Prepare
<1>2. running' = FALSE /\ returned' = <<>> /\ steps' = 0 /\ budget' = 0
  BY <1>1 DEF Boot
<1>3. Inside("run")' /\ Segment' = Segment
  BY <1>1 DEF Inside, Segment
<1>4. Driven'
  BY <1>1, <1>2, <1>3, SMT DEF CallInv, Driven
<1>5. OnTheWay'
  <2>1. CallState' = Fresh(Segment.frame, Segment.depth, FALSE, 0)
    BY <1>1, BootFresh
  <2> QED BY <1>2, <1>3, <2>1 DEF OnTheWay
<1>6. Printed'
  BY <1>1, PrintedStays DEF CallInv
<1> QED BY <1>4, <1>5, <1>6 DEF CallInv

LEMMA LaunchCalls ==
  ASSUME CallInv, Launch PROVE CallInv'
<1>1. /\ UNCHANGED <<script, at, aborted, calls, ready>> /\ ready /\ Inside("run")
      /\ returned = <<>> /\ StartRun(Segment.max)
  BY DEF Launch, driver
<1>2. /\ ~running /\ running' = TRUE /\ returned' = <<>> /\ steps' = 0 /\ budget' = Segment.max
  BY <1>1 DEF StartRun
<1>3. Inside("run")' /\ Segment' = Segment
  BY <1>1 DEF Inside, Segment
<1>4. Segment.max \in Nat
  <2>1. script \in Scripts /\ at \in 1 .. Len(script) /\ script[at].do = "run"
    BY <1>1, SMT DEF CallInv, Driven, Inside
  <2> QED BY <2>1, ScriptAssumption DEF ScriptAssumption, Segment
<1>5. Driven'
  BY <1>1, <1>2, <1>3, <1>4, SMT DEF CallInv, Driven
<1>6. OnTheWay'
  <2>1. CallState = Fresh(Segment.frame, Segment.depth, FALSE, 0)
    BY <1>1, <1>2 DEF CallInv, OnTheWay
  <2>2. CallState' = Fresh(Segment.frame, Segment.depth, TRUE, Segment.max)
    BY <1>1, <2>1, StartFresh
  <2>3. Way(Segment, CallState')
    BY <2>2, LeadsToItself DEF Way
  <2> QED BY <1>2, <1>3, <2>3 DEF OnTheWay
<1>7. Printed'
  BY <1>1, PrintedStays DEF CallInv
<1> QED BY <1>5, <1>6, <1>7 DEF CallInv

LEMMA StepTypes ==
  ASSUME EndRun \/ Step, steps \in Nat
  PROVE  /\ running /\ steps' \in Nat /\ budget' = budget
         /\ \/ running' = FALSE /\ returned' # <<>>
            \/ running' = running /\ returned' = returned
<1>1. \A v : <<v>> # <<>>
  OBVIOUS
<1>2. CASE EndRun
  <2>1. running /\ running' = FALSE /\ returned' = <<StateResult>> /\ UNCHANGED <<steps, budget>>
    BY <1>2, Zenon DEF EndRun
  <2>2. returned' # <<>>
    BY <1>1, <2>1
  <2> QED BY <2>1, <2>2
<1>3. CASE Step
  <2>1. \/ Fine \/ Halt \/ \E e : Fail(e)
    BY <1>3 DEF Step, RunOffEnd, Reject, StopOp, TrapOp, Xchg, Emit, RecurseBottom,
       RecurseTooDeep, RecursePush, Compute
  <2>2. Stepping
    BY <1>3 DEF Step, RunOffEnd, Reject, StopOp, TrapOp, Xchg, Emit, RecurseBottom,
       RecurseTooDeep, RecursePush, Compute, Executing
  <2>3. steps + 1 \in Nat
    BY SMT
  <2>4. CASE Fine \/ Halt
    BY <2>2, <2>3, <2>4, Zenon DEF Fine, Halt, Stepping
  <2>5. CASE \E e : Fail(e)
    <3>1. running' = FALSE /\ returned' = <<{}>> /\ UNCHANGED <<steps, budget>>
      BY <2>5, Zenon DEF Fail
    <3>2. returned' # <<>>
      BY <1>1, <3>1
    <3> QED BY <2>2, <3>1, <3>2 DEF Stepping
  <2> QED BY <2>1, <2>4, <2>5
<1> QED BY <1>2, <1>3

LEMMA RunningCalls ==
  ASSUME CallInv, Running PROVE CallInv'
<1>1. (EndRun \/ Step) /\ UNCHANGED <<script, at, aborted, calls, ready>>
  BY DEF Running, driver
<1>2. /\ running /\ steps' \in Nat /\ budget' = budget
      /\ \/ running' = FALSE /\ returned' # <<>>
         \/ running' = running /\ returned' = returned
  BY <1>1, StepTypes DEF CallInv, Driven
<1>3. ready /\ Inside("run") /\ returned = <<>>
  BY <1>2 DEF CallInv, Driven
<1>4. Inside("run")' /\ Segment' = Segment
  BY <1>1, <1>3 DEF Inside, Segment
<1>5. Driven'
  BY <1>1, <1>2, <1>3, <1>4 DEF CallInv, Driven
<1>6. OnTheWay'
  <2>1. Way(Segment, CallState) /\ CallState.returned = <<>>
    BY <1>2, <1>3, StateFields DEF CallInv, OnTheWay
  <2>2. CallState' = After(CallState)
    BY <1>1, EndAfter, StepAfter DEF CallInv, Driven
  <2>3. Way(Segment, CallState')
    BY <2>1, <2>2, LeadsOn DEF Way
  <2> QED BY <1>2, <1>4, <2>3 DEF OnTheWay
<1>7. Printed'
  BY <1>1, PrintedStays DEF CallInv
<1> QED BY <1>5, <1>6, <1>7 DEF CallInv

LEMMA CollectCalls ==
  ASSUME CallInv, Collect PROVE CallInv'
<1> DEFINE e == [at |-> at, result |-> returned[1], epoch |-> epoch, halted |-> halted]
           S == {calls[c] : c \in 1 .. Len(calls)} \cup {e}
           n == Len(calls) + 1
<1>1. /\ UNCHANGED <<machine, script>> /\ ready' = FALSE /\ at' = at + 1 /\ ready /\ Inside("run")
      /\ returned # <<>> /\ calls' = Append(calls, e)
  BY DEF Collect
<1>2. ~running /\ ~running' /\ UNCHANGED <<steps, budget, returned>>
  BY <1>1 DEF machine, control, CallInv, Driven
<1>3. Driven'
  <2>1. at' \in Nat \ {0}
    BY <1>1, SMT DEF CallInv, Driven
  <2> QED BY <1>1, <1>2, <2>1 DEF CallInv, Driven
<1>4. OnTheWay'
  BY <1>1 DEF OnTheWay
<1>5. calls \in Seq(S) /\ Len(calls) \in Nat
  <2>1. calls \in Seq({calls[c] : c \in 1 .. Len(calls)})
    BY DEF CallInv, Printed
  <2>2. Len(calls) \in Nat /\ calls \in [1 .. Len(calls) -> S]
    BY <2>1, LenProperties
  <2> QED BY <2>2, SeqDef
<1>6. /\ calls' \in Seq(S) /\ Len(calls') = n /\ calls'[n] = e
      /\ \A c \in 1 .. Len(calls) : calls'[c] = calls[c]
  BY <1>1, <1>5, AppendProperties
<1>7. \A c \in 1 .. n : c \in 1 .. Len(calls) \/ c = n
  BY <1>5, SMT
<1>8. Way(Segment, CallState) /\ CallState.returned # <<>>
  BY <1>1, StateFields DEF CallInv, OnTheWay
<1>9. Printed'
  <2>1. calls' \in Seq({calls'[c] : c \in 1 .. Len(calls')})
    <3>1. Len(calls') \in Nat /\ calls' \in [1 .. Len(calls') -> {calls'[c] : c \in 1 .. Len(calls')}]
      BY <1>6, LenProperties
    <3> QED BY <3>1, SeqDef
  <2>2. ASSUME NEW c \in 1 .. Len(calls')
        PROVE  \E x : /\ Way(script'[calls'[c].at], x) /\ x.returned # <<>>
                      /\ calls'[c].result = x.returned[1] /\ calls'[c].epoch = x.epoch
                      /\ calls'[c].halted = x.halted
    <3>1. CASE c = n
      <4>1. /\ calls'[c].at = at /\ calls'[c].result = returned[1] /\ calls'[c].epoch = epoch
            /\ calls'[c].halted = halted
        BY <3>1, <1>6
      <4>2. Way(script'[calls'[c].at], CallState)
        BY <4>1, <1>1, <1>8 DEF Segment
      <4> QED BY <4>1, <4>2, <1>8, StateFields
    <3>2. CASE c \in 1 .. Len(calls)
      <4>1. calls'[c] = calls[c] /\ script' = script
        BY <3>2, <1>1, <1>6
      <4> QED BY <3>2, <4>1 DEF CallInv, Printed
    <3> QED BY <3>1, <3>2, <1>6, <1>7
  <2> QED BY <2>1, <2>2 DEF Printed
<1> QED BY <1>3, <1>4, <1>9 DEF CallInv

LEMMA ReadingCalls ==
  ASSUME CallInv, PrepareRead \/ ReadWord \/ EndRead PROVE CallInv'
<1>1. /\ Inside("read") /\ ~Inside("run") /\ UNCHANGED <<script, aborted, calls>> /\ ~running
  BY InsideOne DEF PrepareRead, ReadWord, EndRead, CallInv, Driven
<1>2. CASE PrepareRead
  <2>1. Inside("read")' /\ ~Inside("run")' /\ at' = at
    BY <1>1, <1>2 DEF PrepareRead, Inside
  <2>2. running' = FALSE /\ returned' = <<>> /\ steps' = 0 /\ budget' = 0
    BY <1>2 DEF PrepareRead, Boot
  <2>3. Driven'
    BY <1>1, <2>1, <2>2, SMT DEF CallInv, Driven
  <2> QED BY <1>1, <2>1, <2>3, PrintedStays DEF CallInv, OnTheWay
<1>3. CASE ReadWord
  <2>1. UNCHANGED <<machine, at, ready>>
    BY <1>3 DEF ReadWord
  <2>2. Inside("read")' = Inside("read") /\ ~Inside("run")'
    BY <1>1, <2>1 DEF Inside
  <2>3. UNCHANGED <<running, returned, steps, budget>>
    BY <2>1 DEF machine, control
  <2> QED BY <1>1, <2>1, <2>2, <2>3, PrintedStays DEF CallInv, Driven, OnTheWay
<1>4. CASE EndRead
  <2>1. UNCHANGED <<machine>> /\ at' = at + 1 /\ ready' = FALSE
    BY <1>4 DEF EndRead
  <2>2. UNCHANGED <<running, returned, steps, budget>> /\ at' \in Nat \ {0}
    BY <2>1, SMT DEF machine, control, CallInv, Driven
  <2> QED BY <1>1, <2>1, <2>2, PrintedStays DEF CallInv, Driven, OnTheWay
<1> QED BY <1>2, <1>3, <1>4

LEMMA StutterCalls ==
  ASSUME CallInv, UNCHANGED vars PROVE CallInv'
<1>1. /\ UNCHANGED <<script, at, ready, aborted, calls>>
      /\ UNCHANGED <<frame, regs, q, depth, epoch, stack, output>>
      /\ UNCHANGED <<halted, error, running, steps, budget, returned>>
  BY DEF vars, machine, setup, core, control, driver
<1>2. CallState' = CallState /\ Segment' = Segment
  BY <1>1 DEF CallState, Segment
<1>3. \A what : Inside(what)' <=> Inside(what)
  BY <1>1 DEF Inside
<1> QED BY <1>1, <1>2, <1>3, PrintedStays DEF CallInv, Driven, OnTheWay

LEMMA CallStep == CallInv /\ [Next]_vars => CallInv'
<1> SUFFICES ASSUME CallInv, [Next]_vars PROVE CallInv'
  OBVIOUS
<1>1. CASE SelfTest \/ Verdict \/ MixColumns \/ Doubling \/ Rotations \/ Fibonacci \/ Multiply \/ Dump
  <2>1. PICK what : Inside(what) /\ what \notin {"run", "read"}
    BY <1>1, SegmentNames DEF SelfTest, Verdict, MixColumns, Doubling, Rotations, Fibonacci,
       Multiply, Dump, Report, Show
  <2>2. UNCHANGED <<machine, script, ready, calls>> /\ at' \in {at, at + 1}
    BY <1>1 DEF SelfTest, Verdict, MixColumns, Doubling, Rotations, Fibonacci, Multiply, Dump,
       Report, Show
  <2> QED BY <2>1, <2>2, PhaseCalls
<1>2. CASE Prepare
  BY <1>2, PrepareCalls
<1>3. CASE Launch
  BY <1>3, LaunchCalls
<1>4. CASE Running
  BY <1>4, RunningCalls
<1>5. CASE Collect
  BY <1>5, CollectCalls
<1>6. CASE PrepareRead \/ ReadWord \/ EndRead
  BY <1>6, ReadingCalls
<1>7. CASE UNCHANGED vars
  BY <1>7, StutterCalls
<1> QED BY <1>1, <1>2, <1>3, <1>4, <1>5, <1>6, <1>7 DEF Next

(* Runs of one program, from one depth, with one limit print one result,   *)
(* in every script: neither earlier runs nor injections into mem.source,   *)
(* nor the trace that is not cleared, make a difference.                   *)
THEOREM RunsAreReproducible == Spec => []SameCallSameResult
<1>1. CallInv => SameCallSameResult
  <2> SUFFICES ASSUME CallInv, NEW c \in 1 .. Len(calls), NEW d \in 1 .. Len(calls),
                      script[calls[c].at].frame = script[calls[d].at].frame,
                      script[calls[c].at].depth = script[calls[d].at].depth,
                      script[calls[c].at].max = script[calls[d].at].max
               PROVE  /\ calls[c].result = calls[d].result
                      /\ calls[c].epoch = calls[d].epoch /\ calls[c].halted = calls[d].halted
    BY DEF SameCallSameResult
  <2>1. PICK x : /\ Way(script[calls[c].at], x) /\ x.returned # <<>>
                 /\ calls[c].result = x.returned[1] /\ calls[c].epoch = x.epoch
                 /\ calls[c].halted = x.halted
    BY DEF CallInv, Printed
  <2>2. PICK y : /\ Way(script[calls[d].at], y) /\ y.returned # <<>>
                 /\ calls[d].result = y.returned[1] /\ calls[d].epoch = y.epoch
                 /\ calls[d].halted = y.halted
    BY DEF CallInv, Printed
  <2>3. x = y
    BY <2>1, <2>2, SameEnd DEF Way
  <2> QED BY <2>1, <2>2, <2>3
<1> QED BY <1>1, CallInit, CallStep, PTL DEF Spec

-----------------------------------------------------------------------------
(* Powers of two, by the number of subsets.                                *)
LEMMA PowerNat == ASSUME NEW n \in Nat PROVE 2^n \in Nat
<1>1. IsFiniteSet(1 .. n) /\ Cardinality(1 .. n) = n
  <2>1. 1 <= n \/ n = 0
    BY SMT
  <2>2. n - 1 + 1 = n
    BY SMT
  <2> QED BY FS_Interval, SMT
<1>2. IsFiniteSet(SUBSET (1 .. n)) /\ Cardinality(SUBSET (1 .. n)) = 2^n
  BY <1>1, FS_SUBSET
<1> QED BY <1>2, FS_CardinalityType

LEMMA PowerStep == ASSUME NEW n \in Nat PROVE 2^(n + 1) = 2 * 2^n
<1> DEFINE S == 1 .. n
           A == SUBSET S
           B == {s \cup {n + 1} : s \in A}
<1>1. n + 1 \notin S /\ 1 .. (n + 1) = S \cup {n + 1} /\ n + 1 \in Nat
  BY SMT
<1>2. /\ IsFiniteSet(1 .. n) /\ Cardinality(1 .. n) = n
      /\ IsFiniteSet(1 .. (n + 1)) /\ Cardinality(1 .. (n + 1)) = n + 1
  BY FS_Interval, SMT
<1>3. IsFiniteSet(A) /\ Cardinality(A) = 2^n /\ Cardinality(SUBSET (1 .. (n + 1))) = 2^(n + 1)
  BY <1>2, FS_SUBSET
<1>4. SUBSET (1 .. (n + 1)) = A \cup B /\ A \cap B = {}
  <2>1. SUBSET (S \cup {n + 1}) = A \cup B
    <3>1. ASSUME NEW t \in SUBSET (S \cup {n + 1}) PROVE t \in A \cup B
      <4>1. CASE n + 1 \in t
        <5>1. t \ {n + 1} \in A /\ t = (t \ {n + 1}) \cup {n + 1}
          BY <4>1
        <5> QED BY <5>1
      <4>2. CASE n + 1 \notin t
        BY <4>2
      <4> QED BY <4>1, <4>2
    <3> QED BY <3>1
  <2>2. A \cap B = {}
    BY <1>1
  <2> QED BY <1>1, <2>1, <2>2
<1>5. IsFiniteSet(B) /\ Cardinality(B) = Cardinality(A)
  <2> DEFINE f == [s \in A |-> s \cup {n + 1}]
  <2>1. f \in Bijection(A, B)
    <3>1. f \in [A -> B]
      OBVIOUS
    <3>2. \A s, t \in A : f[s] = f[t] => s = t
      BY <1>1
    <3>3. \A b \in B : \E s \in A : f[s] = b
      OBVIOUS
    <3> HIDE DEF f, A, B
    <3> QED BY <3>1, <3>2, <3>3 DEF Bijection, Injection, IsInjective, Surjection
  <2> HIDE DEF f, A, B
  <2> QED BY <2>1, <1>3, FS_Bijection DEF ExistsBijection
<1> HIDE DEF A, B
<1>6. Cardinality(A \cup B) = Cardinality(A) + Cardinality(B) - Cardinality(A \cap B)
  BY <1>3, <1>5, FS_Union
<1>7. Cardinality(A \cap B) = 0
  BY <1>4, FS_EmptySet
<1>8. Cardinality(A) \in Nat
  BY <1>3, FS_CardinalityType
<1>9. Cardinality(A \cup B) = 2 * Cardinality(A)
  BY <1>5, <1>6, <1>7, <1>8, SMT
<1> QED BY <1>3, <1>4, <1>9

(* A recursion over 0 .. len defines a function.                           *)
Recursion(h, len, base, step) ==
  h = [i \in 0 .. len |-> IF i = 0 THEN base ELSE step[i][h[i - 1]]]

LEMMA ByRecursion ==
  ASSUME NEW len \in Nat, NEW R, NEW base \in R, NEW step \in [0 .. len -> [R -> R]]
  PROVE  \E h \in [0 .. len -> R] : Recursion(h, len, base, step)
<1> USE DEF Recursion
<1> DEFINE Good(m, h) == Recursion(h, m, base, step)
           T == {m \in 0 .. len : ~ \E h \in [0 .. m -> R] : Good(m, h)}
<1> SUFFICES ASSUME T # {} PROVE FALSE
  BY len \in 0 .. len
<1>1. PICK m \in T : \A j \in T : m <= j
  <2>1. T \in SUBSET Nat
    OBVIOUS
  <2> QED
    BY <2>1, LeastElement
<1>2. CASE m = 0
  <2> DEFINE h == [i \in 0 .. 0 |-> base]
  <2>1. \A i \in 0 .. 0 : i = 0
    BY SMT
  <2>2. h \in [0 .. 0 -> R] /\ Good(0, h)
    BY <2>1
  <2> HIDE DEF h
  <2> QED
    BY <1>2, <2>2
<1>3. CASE m # 0
  <2> DEFINE j == m - 1
  <2>1. j \in 0 .. len /\ m = j + 1 /\ ~(m <= j)
    BY <1>3, SMT
  <2>2. PICK g \in [0 .. j -> R] : Good(j, g)
    BY <1>1, <2>1
  <2> DEFINE h == [i \in 0 .. m |-> IF i = m THEN step[m][g[j]] ELSE g[i]]
  <2>3. \A i \in 0 .. m : i \in 0 .. j \/ i = m
    BY <2>1, SMT
  <2>4. \A i \in 0 .. j : i # m /\ i \in 0 .. m /\ j \in 0 .. j
    BY <2>1, SMT
  <2>5. \A i \in 0 .. m : i # 0 => i - 1 \in 0 .. j
    BY <2>1, SMT
  <2>6. m \in 0 .. len
    OBVIOUS
  <2>7. h \in [0 .. m -> R]
    <3>1. j \in 0 .. j
      BY <2>1, SMT
    <3>2. step[m] \in [R -> R] /\ g[j] \in R
      BY <2>6, <3>1
    <3>3. step[m][g[j]] \in R
      BY <3>2
    <3>4. \A i \in 0 .. m : h[i] \in R
      BY <2>3, <3>3
    <3>5. h = [i \in 0 .. m |-> h[i]]
      OBVIOUS
    <3> HIDE DEF h
    <3> QED
      BY <3>4, <3>5
  <2>8. ASSUME NEW i \in 0 .. m
        PROVE  h[i] = IF i = 0 THEN base ELSE step[i][h[i - 1]]
    <3>1. CASE i = m
      <4>1. h[i - 1] = g[j]
        BY <1>3, <2>4, <2>5, <3>1
      <4> QED
        BY <1>3, <3>1, <4>1
    <3>2. CASE i # m
      <4>1. i \in 0 .. j
        BY <2>3, <3>2
      <4>2. h[i] = g[i] /\ (i # 0 => h[i - 1] = g[i - 1])
        BY <2>4, <2>5, <3>2, <4>1
      <4>3. g[i] = IF i = 0 THEN base ELSE step[i][g[i - 1]]
        BY <2>2, <4>1
      <4> HIDE DEF h
      <4> QED
        BY <4>2, <4>3
    <3> QED
      BY <3>1, <3>2
  <2>9. h = [i \in 0 .. m |-> h[i]]
    OBVIOUS
  <2> HIDE DEF h
  <2>10. Good(m, h)
    BY <2>8, <2>9
  <2> QED
    BY <2>7, <2>10
<1> QED
  BY <1>2, <1>3

(* Two sequences of numbers with the same start and the same differences.  *)
LEMMA SameSteps ==
  ASSUME NEW len \in Nat, NEW f \in [0 .. len -> Int], NEW g \in [0 .. len -> Int], f[0] = g[0],
         \A i \in 1 .. len : f[i] - f[i - 1] = g[i] - g[i - 1]
  PROVE  \A i \in 0 .. len : f[i] = g[i]
<1> DEFINE T == {i \in 0 .. len : f[i] # g[i]}
<1> SUFFICES ASSUME T # {} PROVE FALSE
  OBVIOUS
<1>1. PICK m \in T : \A i \in T : m <= i
  <2>1. T \in SUBSET Nat
    BY SMT
  <2> HIDE DEF T
  <2> QED
    BY <2>1, LeastElement
<1>2. m \in 1 .. len /\ m - 1 \in 0 .. len /\ ~(m <= m - 1)
  BY SMT
<1>3. f[m - 1] = g[m - 1]
  BY <1>1, <1>2
<1>4. f[m] \in Int /\ g[m] \in Int /\ f[m - 1] \in Int /\ f[m] # g[m]
  BY <1>2
<1> QED
  BY <1>2, <1>3, <1>4

(* The number of a word, bit by bit.                                       *)
Digit(w, i) == IF i \in w THEN 2^i ELSE 0

SumBody(w, s) ==
  s = [i \in 0 .. FullBits |->
         IF i = 0 THEN 0 ELSE IF i - 1 \in w THEN s[i - 1] + 2^(i - 1) ELSE s[i - 1]]

Part(w, i) == (CHOOSE s : SumBody(w, s))[i]

LEMMA Widths ==
  /\ FullBits \in Nat /\ LongBits \in Nat /\ ByteBits \in Nat
  /\ 1 <= ByteBits /\ LongBits = 4 * ByteBits /\ FullBits = 8 * ByteBits
BY ByteAssumption, SMT DEF FullBits, LongBits

LEMMA SameBits ==
  ASSUME NEW f \in [0 .. FullBits -> Int], NEW g \in [0 .. FullBits -> Int], f[0] = g[0],
         \A i \in 1 .. FullBits : f[i] - f[i - 1] = g[i] - g[i - 1]
  PROVE  \A i \in 0 .. FullBits : f[i] = g[i]
<1>1. FullBits \in Nat
  BY Widths
<1> QED BY <1>1, SameSteps, Zenon

LEMMA NumberIsPart == ASSUME NEW w PROVE Number(w) = Part(w, FullBits)
BY DEF Number, Part, SumBody

LEMMA PowerBefore == ASSUME NEW i \in 0 .. FullBits, i # 0 PROVE 2^(i - 1) \in Nat
BY PowerNat, SMT

LEMMA SumIsDefined == ASSUME NEW w PROVE \E s \in [0 .. FullBits -> Nat] : SumBody(w, s)
<1> DEFINE step == [i \in 0 .. FullBits |-> [m \in Nat |->
                      IF i # 0 /\ i - 1 \in w THEN m + 2^(i - 1) ELSE m]]
<1>1. step \in [0 .. FullBits -> [Nat -> Nat]]
  <2>1. ASSUME NEW i \in 0 .. FullBits, NEW m \in Nat
        PROVE  (IF i # 0 /\ i - 1 \in w THEN m + 2^(i - 1) ELSE m) \in Nat
    <3>1. CASE i # 0
      <4>1. 2^(i - 1) \in Nat
        BY <3>1, PowerBefore
      <4> QED BY <4>1
    <3>2. CASE i = 0
      BY <3>2
    <3> QED BY <3>1, <3>2
  <2> QED BY <2>1
<1>2. \A i \in 0 .. FullBits, m \in Nat :
        step[i][m] = IF i # 0 /\ i - 1 \in w THEN m + 2^(i - 1) ELSE m
  OBVIOUS
<1>3. 0 \in Nat /\ FullBits \in Nat
  BY Widths
<1> HIDE DEF step
<1>4. PICK h : h \in [0 .. FullBits -> Nat] /\ Recursion(h, FullBits, 0, step)
  BY <1>1, <1>3, ByRecursion
<1>5. ASSUME NEW i \in 0 .. FullBits, i # 0
      PROVE  step[i][h[i - 1]] = IF i - 1 \in w THEN h[i - 1] + 2^(i - 1) ELSE h[i - 1]
  <2>1. i - 1 \in 0 .. FullBits
    BY <1>3, <1>5, SMT
  <2>2. h[i - 1] \in Nat
    BY <1>4, <2>1
  <2> QED BY <1>2, <1>5, <2>2
<1>6. h = [i \in 0 .. FullBits |-> IF i = 0 THEN 0 ELSE step[i][h[i - 1]]]
  BY <1>4 DEF Recursion
<1>7. SumBody(w, h)
  BY <1>5, <1>6, Zenon DEF SumBody
<1> QED BY <1>4, <1>7

LEMMA PartSteps ==
  ASSUME NEW w
  PROVE  /\ Part(w, 0) = 0
         /\ \A i \in 1 .. FullBits : Part(w, i) = Part(w, i - 1) + Digit(w, i - 1)
         /\ \A i \in 0 .. FullBits : Part(w, i) \in Nat /\ Digit(w, i) \in Nat
<1> DEFINE s == CHOOSE t : SumBody(w, t)
<1>1. SumBody(w, s)
  BY SumIsDefined
<1>2. \A i : Part(w, i) = s[i]
  BY DEF Part
<1>3. \A i \in 0 .. FullBits : s[i] \in Nat
  <2>1. PICK h : h \in [0 .. FullBits -> Nat] /\ SumBody(w, h)
    BY SumIsDefined
  <2> DEFINE T == {i \in 0 .. FullBits : s[i] # h[i]}
  <2> SUFFICES T = {}
    BY <2>1
  <2> SUFFICES ASSUME T # {} PROVE FALSE
    OBVIOUS
  <2>2. PICK m \in T : \A i \in T : m <= i
    <3>1. T \in SUBSET Nat
      BY SMT
    <3> HIDE DEF T
    <3> QED BY <3>1, LeastElement
  <2> HIDE DEF s
  <2>3. \A i \in 0 .. FullBits :
          /\ s[i] = IF i = 0 THEN 0 ELSE IF i - 1 \in w THEN s[i - 1] + 2^(i - 1) ELSE s[i - 1]
          /\ h[i] = IF i = 0 THEN 0 ELSE IF i - 1 \in w THEN h[i - 1] + 2^(i - 1) ELSE h[i - 1]
    BY <1>1, <2>1, Zenon DEF SumBody
  <2>4. m # 0
    BY <2>2, <2>3
  <2>5. m - 1 \in 0 .. FullBits /\ ~(m <= m - 1)
    BY <2>4, Widths, SMT
  <2>6. s[m - 1] = h[m - 1]
    BY <2>2, <2>5
  <2> QED BY <2>3, <2>4, <2>6
<1> HIDE DEF s
<1>4. \A i \in 0 .. FullBits :
        s[i] = IF i = 0 THEN 0 ELSE IF i - 1 \in w THEN s[i - 1] + 2^(i - 1) ELSE s[i - 1]
  BY <1>1, Zenon DEF SumBody
<1>5. s[0] = 0
  BY <1>4, Widths, SMT
<1>6. \A i \in 0 .. FullBits : Digit(w, i) \in Nat
  BY PowerNat, SMT DEF Digit
<1>7. ASSUME NEW i \in 1 .. FullBits PROVE s[i] = s[i - 1] + Digit(w, i - 1)
  <2>1. i \in 0 .. FullBits /\ i # 0 /\ i - 1 \in 0 .. FullBits
    BY Widths, SMT
  <2>2. s[i] = IF i - 1 \in w THEN s[i - 1] + 2^(i - 1) ELSE s[i - 1]
    BY <1>4, <2>1, Zenon
  <2>3. s[i - 1] \in Nat
    BY <1>3, <2>1
  <2> QED BY <2>2, <2>3, SMT DEF Digit
<1> QED BY <1>2, <1>3, <1>5, <1>6, <1>7, Zenon

LEMMA PartType == ASSUME NEW w, NEW i \in 0 .. FullBits PROVE Part(w, i) \in Nat
BY PartSteps

LEMMA NumberType == ASSUME NEW w PROVE Number(w) \in Nat
BY NumberIsPart, PartType, Widths, SMT

LEMMA DigitType == ASSUME NEW w, NEW i \in Nat PROVE Digit(w, i) \in Nat
BY PowerNat DEF Digit

(* Two courses of numbers, bit by bit.                                     *)
LEMMA PlacesInRange ==
  /\ 0 \in 0 .. FullBits /\ FullBits \in 0 .. FullBits
  /\ \A i \in 1 .. FullBits : i \in 0 .. FullBits /\ i - 1 \in 0 .. FullBits /\ i - 1 \in Nat
                              /\ (i - 1) + 1 = i
BY Widths, SMT

(* A word's part depends on its lower bits.                                *)
LEMMA PartCut ==
  ASSUME NEW w, NEW k \in 0 .. FullBits, NEW i \in 0 .. FullBits
  PROVE  Part(w \cap 0 .. k - 1, i) = IF i <= k THEN Part(w, i) ELSE Part(w, k)
<1> DEFINE v == w \cap 0 .. k - 1
           f == [j \in 0 .. FullBits |-> Part(v, j)]
           g == [j \in 0 .. FullBits |-> IF j <= k THEN Part(w, j) ELSE Part(w, k)]
<1>1. f \in [0 .. FullBits -> Int] /\ g \in [0 .. FullBits -> Int]
  BY PartType
<1>2. f[0] = g[0]
  BY PartSteps, PlacesInRange
<1>3. ASSUME NEW j \in 1 .. FullBits PROVE f[j] - f[j - 1] = g[j] - g[j - 1]
  <2>1. Part(v, j) = Part(v, j - 1) + Digit(v, j - 1) /\ Part(w, j) = Part(w, j - 1) + Digit(w, j - 1)
    BY PartSteps
  <2>2. Part(v, j - 1) \in Nat /\ Part(w, j - 1) \in Nat /\ Digit(w, j - 1) \in Nat /\ Part(w, k) \in Nat
    BY PartType, DigitType, PlacesInRange
  <2>3. CASE j <= k
    <3>1. Digit(v, j - 1) = Digit(w, j - 1)
      BY <2>3, SMT DEF Digit
    <3> QED BY <2>1, <2>2, <2>3, <3>1, PlacesInRange
  <2>4. CASE ~(j <= k)
    <3>1. Digit(v, j - 1) = 0
      BY <2>4, SMT DEF Digit
    <3>2. j = k + 1 => j - 1 = k
      BY SMT
    <3>3. j - 1 <= k <=> j = k + 1
      BY <2>4, SMT
    <3> QED BY <2>1, <2>2, <2>4, <3>1, <3>2, <3>3, PlacesInRange
  <2> QED BY <2>3, <2>4
<1> HIDE DEF f, g
<1>4. \A j \in 0 .. FullBits : f[j] = g[j]
  BY <1>1, <1>2, <1>3, SameBits, Zenon
<1> QED BY <1>4 DEF f, g

(* The rest of the word.                                                   *)
LEMMA PartAbove ==
  ASSUME NEW w, NEW k \in 0 .. FullBits, NEW i \in 0 .. FullBits
  PROVE  Part(w \ 0 .. k - 1, i) = IF i <= k THEN 0 ELSE Part(w, i) - Part(w, k)
<1> DEFINE v == w \ 0 .. k - 1
           f == [j \in 0 .. FullBits |-> Part(v, j)]
           g == [j \in 0 .. FullBits |-> IF j <= k THEN 0 ELSE Part(w, j) - Part(w, k)]
<1>1. f \in [0 .. FullBits -> Int] /\ g \in [0 .. FullBits -> Int]
  <2>1. \A j \in 0 .. FullBits : Part(v, j) \in Int /\ Part(w, j) \in Int
    BY PartType
  <2> HIDE DEF v
  <2> QED BY <2>1
<1>2. f[0] = g[0]
  BY PartSteps, PlacesInRange
<1>3. ASSUME NEW j \in 1 .. FullBits PROVE f[j] - f[j - 1] = g[j] - g[j - 1]
  <2>1. Part(v, j) = Part(v, j - 1) + Digit(v, j - 1) /\ Part(w, j) = Part(w, j - 1) + Digit(w, j - 1)
    BY PartSteps
  <2>2. Part(v, j - 1) \in Nat /\ Part(w, j - 1) \in Nat /\ Digit(w, j - 1) \in Nat /\ Part(w, k) \in Nat
    BY PartType, DigitType, PlacesInRange
  <2>3. CASE j <= k
    <3>1. Digit(v, j - 1) = 0
      BY <2>3, SMT DEF Digit
    <3> QED BY <2>1, <2>2, <2>3, <3>1, PlacesInRange
  <2>4. CASE ~(j <= k)
    <3>1. Digit(v, j - 1) = Digit(w, j - 1)
      BY <2>4, SMT DEF Digit
    <3>2. j = k + 1 => j - 1 = k
      BY SMT
    <3>3. j - 1 <= k <=> j = k + 1
      BY <2>4, SMT
    <3> QED BY <2>1, <2>2, <2>4, <3>1, <3>2, <3>3, PlacesInRange
  <2> QED BY <2>3, <2>4
<1> HIDE DEF f, g
<1>4. \A j \in 0 .. FullBits : f[j] = g[j]
  BY <1>1, <1>2, <1>3, SameBits, Zenon
<1> QED BY <1>4 DEF f, g

(* One more bit.                                                           *)
LEMMA PartWithBit ==
  ASSUME NEW w, NEW k \in 0 .. FullBits - 1, k \notin w, NEW i \in 0 .. FullBits
  PROVE  Part(w \cup {k}, i) = IF i <= k THEN Part(w, i) ELSE Part(w, i) + 2^k
<1> DEFINE v == w \cup {k}
           f == [j \in 0 .. FullBits |-> Part(v, j)]
           g == [j \in 0 .. FullBits |-> IF j <= k THEN Part(w, j) ELSE Part(w, j) + 2^k]
<1>0. 2^k \in Nat /\ k \in Nat
  BY PowerNat, Widths, SMT
<1>1. f \in [0 .. FullBits -> Int] /\ g \in [0 .. FullBits -> Int]
  <2>1. \A j \in 0 .. FullBits : Part(v, j) \in Int /\ Part(w, j) \in Int
    BY PartType
  <2> HIDE DEF v
  <2> QED BY <1>0, <2>1
<1>2. f[0] = g[0]
  BY <1>0, PartSteps, PlacesInRange
<1>3. ASSUME NEW j \in 1 .. FullBits PROVE f[j] - f[j - 1] = g[j] - g[j - 1]
  <2>1. Part(v, j) = Part(v, j - 1) + Digit(v, j - 1) /\ Part(w, j) = Part(w, j - 1) + Digit(w, j - 1)
    BY PartSteps
  <2>2. Part(v, j - 1) \in Nat /\ Part(w, j - 1) \in Nat /\ Digit(w, j - 1) \in Nat
    BY PartType, DigitType, PlacesInRange
  <2>3. CASE j - 1 = k
    <3>1. Digit(v, j - 1) = 2^k /\ Digit(w, j - 1) = 0
      BY <2>3, SMT DEF Digit
    <3>2. ~(j <= k) /\ j - 1 <= k
      BY <2>3, <1>0, SMT
    <3> QED BY <1>0, <2>1, <2>2, <3>1, <3>2, PlacesInRange
  <2>4. CASE j - 1 # k
    <3>1. Digit(v, j - 1) = Digit(w, j - 1)
      BY <2>4, SMT DEF Digit
    <3>2. j <= k <=> j - 1 <= k
      BY <2>4, <1>0, SMT
    <3> QED BY <1>0, <2>1, <2>2, <3>1, <3>2, PlacesInRange
  <2> QED BY <2>3, <2>4
<1> HIDE DEF f, g
<1>4. \A j \in 0 .. FullBits : f[j] = g[j]
  BY <1>1, <1>2, <1>3, SameBits, Zenon
<1> QED BY <1>4 DEF f, g

(* The complement is what is missing to all ones.                          *)
LEMMA PowerZero == 2^0 = 1
BY SMT

LEMMA PartOfComplement ==
  ASSUME NEW w, NEW i \in 0 .. FullBits
  PROVE  Part(AllOnes \ w, i) = 2^i - 1 - Part(w, i)
<1> DEFINE v == AllOnes \ w
           f == [j \in 0 .. FullBits |-> Part(v, j)]
           g == [j \in 0 .. FullBits |-> 2^j - 1 - Part(w, j)]
<1>0. \A j \in 0 .. FullBits : 2^j \in Int
  BY PowerNat, Widths, SMT
<1>1. f \in [0 .. FullBits -> Int] /\ g \in [0 .. FullBits -> Int]
  <2>1. \A j \in 0 .. FullBits : Part(v, j) \in Int /\ Part(w, j) \in Int
    BY PartType
  <2> HIDE DEF v
  <2> QED BY <1>0, <2>1, SMT
<1>2. f[0] = g[0]
  BY PowerZero, PartSteps, PlacesInRange
<1>3. ASSUME NEW j \in 1 .. FullBits PROVE f[j] - f[j - 1] = g[j] - g[j - 1]
  <2>1. Part(v, j) = Part(v, j - 1) + Digit(v, j - 1) /\ Part(w, j) = Part(w, j - 1) + Digit(w, j - 1)
    BY PartSteps
  <2>2. Part(v, j - 1) \in Nat /\ Part(w, j - 1) \in Nat /\ 2^(j - 1) \in Int
    BY <1>0, PartType, PlacesInRange
  <2>3. 2^j = 2 * 2^(j - 1)
    <3>1. j - 1 \in Nat /\ (j - 1) + 1 = j
      BY PlacesInRange
    <3>2. 2^((j - 1) + 1) = 2 * 2^(j - 1)
      BY <3>1, PowerStep
    <3> QED BY <3>1, <3>2
  <2>4. j - 1 \in AllOnes
    BY Widths, SMT DEF AllOnes
  <2>5. ASSUME j - 1 \in w
        PROVE  Part(v, j) - Part(v, j - 1) = (2^j - 1 - Part(w, j)) - (2^(j - 1) - 1 - Part(w, j - 1))
    <3>1. Digit(v, j - 1) = 0 /\ Digit(w, j - 1) = 2^(j - 1)
      BY <2>5 DEF Digit
    <3> HIDE DEF v
    <3> QED BY <2>1, <2>2, <2>3, <3>1, SMT
  <2>6. ASSUME j - 1 \notin w
        PROVE  Part(v, j) - Part(v, j - 1) = (2^j - 1 - Part(w, j)) - (2^(j - 1) - 1 - Part(w, j - 1))
    <3>1. Digit(v, j - 1) = 2^(j - 1) /\ Digit(w, j - 1) = 0
      BY <2>4, <2>6 DEF Digit
    <3> HIDE DEF v
    <3> QED BY <2>1, <2>2, <2>3, <3>1, SMT
  <2>7. Part(v, j) - Part(v, j - 1) = (2^j - 1 - Part(w, j)) - (2^(j - 1) - 1 - Part(w, j - 1))
    BY <2>5, <2>6
  <2> HIDE DEF v
  <2> QED BY <2>7, PlacesInRange
<1> HIDE DEF f, g
<1>4. \A j \in 0 .. FullBits : f[j] = g[j]
  BY <1>1, <1>2, <1>3, SameBits, Zenon
<1> QED BY <1>4 DEF f, g

LEMMA PartBelow == ASSUME NEW w, NEW i \in 0 .. FullBits PROVE Part(w, i) < 2^i
<1>1. Part(AllOnes \ w, i) = 2^i - 1 - Part(w, i)
  BY PartOfComplement
<1>2. Part(AllOnes \ w, i) \in Nat /\ Part(w, i) \in Nat /\ 2^i \in Nat
  BY PartType, PowerNat, Widths, SMT
<1> QED BY <1>1, <1>2, SMT

-----------------------------------------------------------------------------
(* Words in the order of CMP.                                              *)
LEMMA GreatestElement ==
  ASSUME NEW n \in Nat, NEW T \in SUBSET (0 .. n - 1), T # {}
  PROVE  \E x \in T : \A y \in T : y <= x
<1> DEFINE S == {n - x : x \in T}
<1>1. S \in SUBSET Nat /\ S # {}
  <2>1. \A x \in T : n - x \in Nat
    BY SMT
  <2> QED BY <2>1
<1>2. PICK z \in S : \A y \in S : z <= y
  <2> HIDE DEF S
  <2> QED BY <1>1, LeastElement
<1>3. PICK x \in T : z = n - x
  OBVIOUS
<1>4. ASSUME NEW y \in T PROVE y <= x
  <2>1. n - x <= n - y
    BY <1>2, <1>3
  <2> QED BY <2>1, SMT
<1> QED BY <1>3, <1>4

LEMMA TopDecides ==
  ASSUME NEW a, NEW b, NEW m \in 0 .. FullBits - 1, m \in a, m \notin b,
         \A j \in m + 1 .. FullBits - 1 : j \in a <=> j \in b
  PROVE  Number(b) < Number(a)
<1> DEFINE top == Part(a, m + 1) - Part(b, m + 1)
           f == [j \in 0 .. FullBits |-> Part(a, j) - Part(b, j)]
           g == [j \in 0 .. FullBits |-> IF j <= m THEN Part(a, j) - Part(b, j) ELSE top]
<1>0. m \in Nat /\ m \in 0 .. FullBits /\ m + 1 \in 1 .. FullBits /\ (m + 1) - 1 = m
  BY Widths, SMT
<1>1. \A j \in 0 .. FullBits : Part(a, j) \in Int /\ Part(b, j) \in Int
  BY PartType
<1>2. Part(a, m + 1) = Part(a, m) + 2^m /\ Part(b, m + 1) = Part(b, m)
  <2>1. Part(a, m + 1) = Part(a, m) + Digit(a, m) /\ Part(b, m + 1) = Part(b, m) + Digit(b, m)
    BY <1>0, PartSteps
  <2>2. Digit(a, m) = 2^m /\ Digit(b, m) = 0
    BY DEF Digit
  <2> QED BY <1>0, <1>1, <2>1, <2>2, SMT
<1>3. top \in Int /\ 0 < top
  <2>1. Part(b, m) < 2^m /\ Part(a, m) \in Nat /\ Part(b, m) \in Nat /\ 2^m \in Nat
    BY <1>0, PartBelow, PartType, PowerNat
  <2> QED BY <1>2, <2>1, SMT
<1> HIDE DEF top
<1>4. f \in [0 .. FullBits -> Int] /\ g \in [0 .. FullBits -> Int]
  BY <1>1, <1>3, SMT
<1>5. f[0] = g[0]
  BY <1>0, PlacesInRange
<1>6. ASSUME NEW j \in 1 .. FullBits PROVE f[j] - f[j - 1] = g[j] - g[j - 1]
  <2>0. j \in 0 .. FullBits /\ j - 1 \in 0 .. FullBits
    BY PlacesInRange
  <2>1. CASE j <= m
    <3>1. j - 1 <= m
      BY <2>1, <1>0, SMT
    <3> QED BY <2>0, <2>1, <3>1
  <2>2. CASE j = m + 1
    <3>1. f[j] = top /\ g[j] = top /\ f[j - 1] = g[j - 1]
      <4>1. j - 1 = m /\ j - 1 <= m /\ ~(j <= m)
        BY <2>2, <1>0, SMT
      <4> QED BY <2>0, <2>2, <4>1 DEF top
    <3> HIDE DEF f, g
    <3> QED BY <3>1
  <2>3. CASE m + 1 < j
    <3>1. ~(j <= m) /\ ~(j - 1 <= m) /\ j - 1 \in m + 1 .. FullBits - 1
      BY <2>3, <1>0, Widths, SMT
    <3>2. Digit(a, j - 1) = Digit(b, j - 1)
      BY <3>1 DEF Digit
    <3>3. Part(a, j) = Part(a, j - 1) + Digit(a, j - 1) /\ Part(b, j) = Part(b, j - 1) + Digit(b, j - 1)
      BY PartSteps
    <3>4. Digit(a, j - 1) \in Int /\ Part(a, j - 1) \in Int /\ Part(b, j - 1) \in Int
      BY <1>1, <2>0, DigitType, PlacesInRange
    <3>5. f[j] = Part(a, j) - Part(b, j) /\ f[j - 1] = Part(a, j - 1) - Part(b, j - 1)
          /\ g[j] = top /\ g[j - 1] = top
      BY <2>0, <3>1
    <3> HIDE DEF f, g
    <3> QED BY <3>2, <3>3, <3>4, <3>5, <1>3, SMT
  <2> QED BY <2>1, <2>2, <2>3, <1>0, SMT
<1> HIDE DEF f, g
<1>7. f[FullBits] = g[FullBits]
  <2>1. \A j \in 0 .. FullBits : f[j] = g[j]
    BY <1>4, <1>5, <1>6, SameBits, Zenon
  <2> QED BY <2>1, PlacesInRange
<1>8. Part(a, FullBits) - Part(b, FullBits) = top
  <2>1. ~(FullBits <= m)
    BY <1>0, Widths, SMT
  <2> QED BY <1>7, <2>1, PlacesInRange DEF f, g
<1>9. Number(a) = Part(a, FullBits) /\ Number(b) = Part(b, FullBits)
  BY NumberIsPart
<1> QED BY <1>1, <1>3, <1>8, <1>9, PlacesInRange, SMT

LEMMA TopDiffers ==
  ASSUME NEW a \in FullWord, NEW b \in FullWord, a # b
  PROVE  /\ Max(Xor(a, b)) \in Xor(a, b)
         /\ \A j \in Max(Xor(a, b)) + 1 .. FullBits - 1 : j \in a <=> j \in b
<1> DEFINE T == Xor(a, b)
           m == Max(T)
<1>1. T \in SUBSET (0 .. FullBits - 1) /\ T # {}
  BY DEF Xor, FullWord, Word
<1>2. m \in T /\ \A y \in T : m >= y
  <2>1. \E x \in T : \A y \in T : y <= x
    <3> HIDE DEF T
    <3> QED BY <1>1, GreatestElement, Widths
  <2>2. \E x \in T : \A y \in T : x >= y
    BY <1>1, <2>1, SMT
  <2> HIDE DEF T
  <2> QED BY <2>2 DEF Max
<1>3. ASSUME NEW j \in m + 1 .. FullBits - 1 PROVE j \in a <=> j \in b
  <2>1. m \in Int
    BY <1>1, <1>2, SMT
  <2>2. ~(m >= j)
    BY <2>1, SMT
  <2>3. j \notin T
    BY <1>2, <2>2
  <2> QED BY <2>3 DEF Xor
<1> QED BY <1>2, <1>3

LEMMA GreaterNumber ==
  ASSUME NEW a \in FullWord, NEW b \in FullWord, a # b, Max(Xor(a, b)) \in a
  PROVE  Number(b) < Number(a)
<1> DEFINE m == Max(Xor(a, b))
<1>1. m \in Xor(a, b) /\ \A j \in m + 1 .. FullBits - 1 : j \in a <=> j \in b
  BY TopDiffers
<1> HIDE DEF m
<1>2. m \in 0 .. FullBits - 1 /\ m \in a /\ m \notin b
  BY <1>1 DEF m, Xor, FullWord, Word
<1> QED BY <1>1, <1>2, TopDecides

LEMMA LesserNumber ==
  ASSUME NEW a \in FullWord, NEW b \in FullWord, a # b, ~(Max(Xor(a, b)) \in a)
  PROVE  Number(a) < Number(b)
<1>1. Xor(a, b) = Xor(b, a)
  BY DEF Xor
<1>2. Max(Xor(b, a)) \in b
  BY <1>1, TopDiffers DEF Xor
<1> QED BY <1>2, GreaterNumber

LEMMA NumberOneToOne ==
  ASSUME NEW a \in FullWord, NEW b \in FullWord, Number(a) = Number(b)
  PROVE  a = b
<1> SUFFICES ASSUME a # b PROVE FALSE
  OBVIOUS
<1>1. Number(a) \in Nat /\ Number(b) \in Nat
  BY NumberType
<1>2. Number(b) < Number(a) \/ Number(a) < Number(b)
  BY GreaterNumber, LesserNumber
<1> QED BY <1>1, <1>2, SMT

LEMMA NumberOfZero == Number({}) = 0
<1>1. Part({} \cap 0 .. 0 - 1, FullBits) = IF FullBits <= 0 THEN Part({}, FullBits) ELSE Part({}, 0)
  BY PartCut, PlacesInRange, SMT
<1>2. {} \cap 0 .. 0 - 1 = {} /\ ~(FullBits <= 0)
  BY Widths, SMT
<1> QED BY <1>1, <1>2, PartSteps, NumberIsPart

(* What is above a place is a multiple of its power.                       *)
LEMMA Multiples ==
  ASSUME NEW w, NEW k \in 0 .. FullBits, NEW i \in k .. FullBits
  PROVE  \E u, t \in Nat : 2^i = u * 2^k /\ Part(w, i) = t * 2^k + Part(w, k)
<1> DEFINE Holds(j) == \E u, t \in Nat : 2^j = u * 2^k /\ Part(w, j) = t * 2^k + Part(w, k)
           T == {j \in k .. FullBits : ~Holds(j)}
<1> SUFFICES ASSUME T # {} PROVE FALSE
  OBVIOUS
<1>0. k \in Nat /\ FullBits \in Nat /\ 2^k \in Nat /\ Part(w, k) \in Nat
  BY Widths, PowerNat, PartType, SMT
<1>1. PICK m \in T : \A j \in T : m <= j
  <2>1. T \in SUBSET Nat
    BY <1>0, SMT
  <2> HIDE DEF T
  <2> QED BY <2>1, LeastElement
<1>2. m # k
  <2>1. 2^k = 1 * 2^k /\ Part(w, k) = 0 * 2^k + Part(w, k)
    BY <1>0, SMT
  <2> QED BY <2>1
<1>3. m \in 1 .. FullBits /\ m - 1 \in k .. FullBits /\ ~(m <= m - 1) /\ m - 1 \in Nat /\ (m - 1) + 1 = m
      /\ m - 1 \in 0 .. FullBits
  BY <1>0, <1>2, SMT
<1>4. Holds(m - 1)
  BY <1>1, <1>3
<1>5. PICK u \in Nat, t \in Nat : 2^(m - 1) = u * 2^k /\ Part(w, m - 1) = t * 2^k + Part(w, k)
  BY <1>4
<1>6. 2^m = 2 * 2^(m - 1)
  <2>1. 2^((m - 1) + 1) = 2 * 2^(m - 1)
    BY <1>3, PowerStep
  <2> QED BY <1>3, <2>1
<1>7. Part(w, m) = Part(w, m - 1) + Digit(w, m - 1)
  BY <1>3, PartSteps
<1>8. 2^m = (2 * u) * 2^k /\ 2 * u \in Nat
  <2> DEFINE p == 2^k
  <2>1. p \in Nat /\ 2 * u \in Nat
    BY <1>0, SMT
  <2> HIDE DEF p
  <2>2. 2 * (u * p) = (2 * u) * p
    BY <2>1, SMT
  <2> QED BY <1>5, <1>6, <2>1, <2>2 DEF p
<1>9. \E v \in Nat : Part(w, m) = v * 2^k + Part(w, k)
  <2> DEFINE p == 2^k  g == Part(w, k)
  <2>1. p \in Nat /\ g \in Nat
    BY <1>0
  <2> HIDE DEF p, g
  <2>2. CASE m - 1 \in w
    <3>1. Part(w, m) = (t * p + g) + u * p
      BY <1>5, <1>7, <2>2 DEF Digit, p, g
    <3>2. (t * p + g) + u * p = (t + u) * p + g /\ t + u \in Nat
      BY <2>1, SMT
    <3> QED BY <3>1, <3>2, Zenon DEF p, g
  <2>3. CASE m - 1 \notin w
    <3>1. Part(w, m) = (t * p + g) + 0
      BY <1>5, <1>7, <2>3 DEF Digit, p, g
    <3>2. (t * p + g) + 0 = t * p + g
      BY <2>1, SMT
    <3> QED BY <3>1, <3>2, Zenon DEF p, g
  <2> QED BY <2>2, <2>3
<1> QED BY <1>1, <1>8, <1>9

LEMMA Remainder ==
  ASSUME NEW m \in Nat \ {0}, NEW g \in Int, NEW r \in Nat, r < m
  PROVE  (g * m + r) % m = r /\ (g * m + r) \div m = g
BY SMT

LEMMA PowerPositive == ASSUME NEW n \in Nat PROVE 2^n \in Nat \ {0}
<1>1. 2^n \in Nat
  BY PowerNat
<1>2. SUFFICES 2^n # 0
  BY <1>1
<1> DEFINE T == {i \in Nat : 2^i = 0}
<1> SUFFICES ASSUME T # {} PROVE FALSE
  OBVIOUS
<1>3. PICK m \in T : \A j \in T : m <= j
  BY LeastElement
<1>4. m # 0
  <2>1. 2^m = 0 /\ 0 # 1
    OBVIOUS
  <2> QED BY <2>1, PowerZero, Zenon
<1>5. m - 1 \in Nat /\ (m - 1) + 1 = m /\ ~(m <= m - 1)
  BY <1>4, SMT
<1>6. 2^m = 2 * 2^(m - 1)
  <2>1. 2^((m - 1) + 1) = 2 * 2^(m - 1)
    BY <1>5, PowerStep
  <2> QED BY <1>5, <2>1
<1>7. 2^(m - 1) = 0
  BY <1>5, <1>6, PowerNat
<1> QED BY <1>3, <1>5, <1>7

LEMMA PartModulo ==
  ASSUME NEW w, NEW k \in 0 .. FullBits
  PROVE  Number(w) % 2^k = Part(w, k)
<1>1. PICK t \in Nat : Part(w, FullBits) = t * 2^k + Part(w, k)
  <2>1. FullBits \in k .. FullBits
    BY Widths, SMT
  <2> QED BY <2>1, Multiples
<1>2. 2^k \in Nat \ {0} /\ Part(w, k) \in Nat /\ Part(w, k) < 2^k
  BY PowerPositive, PartType, PartBelow, Widths, SMT
<1> DEFINE p == 2^k  g == Part(w, k)
<1>3. (t * p + g) % p = g
  <2>1. p \in Nat \ {0} /\ g \in Nat /\ g < p /\ t \in Int
    BY <1>2, SMT
  <2> HIDE DEF p, g
  <2> QED BY <2>1, Remainder, Zenon
<1> QED BY <1>1, <1>3, NumberIsPart

LEMMA NumberInRange == ASSUME NEW w PROVE Number(w) \in 0 .. 2^FullBits - 1
<1>1. Part(w, FullBits) < 2^FullBits /\ Part(w, FullBits) \in Nat /\ 2^FullBits \in Nat
  BY PartBelow, PartType, PowerNat, PlacesInRange, Widths
<1> QED BY <1>1, NumberIsPart, SMT

(* The cast to 32 bits.                                                    *)
LEMMA LowNumber == ASSUME NEW w PROVE Number(Lo32(w)) = Number(w) % 2^LongBits
<1>1. LongBits \in 0 .. FullBits /\ ~(FullBits <= LongBits)
  BY Widths, SMT
<1>2. Part(w \cap 0 .. LongBits - 1, FullBits) = Part(w, LongBits)
  BY <1>1, PartCut, PlacesInRange
<1>3. Number(Lo32(w)) = Part(Lo32(w), FullBits)
  BY NumberIsPart
<1> QED BY <1>1, <1>2, <1>3, PartModulo DEF Lo32

(* The lowest bit.                                                         *)
LEMMA LowestBit == ASSUME NEW w PROVE Number(w) % 2 = IF 0 \in w THEN 1 ELSE 0
<1>1. 1 \in 0 .. FullBits /\ 1 \in 1 .. FullBits /\ 1 - 1 = 0
  BY Widths, SMT
<1>2. 2^1 = 2
  <2>1. 2^(0 + 1) = 2 * 2^0
    BY PowerStep
  <2> QED BY <2>1, PowerZero, SMT
<1>3. Number(w) % 2 = Part(w, 1)
  BY <1>1, <1>2, PartModulo
<1>4. Part(w, 1) = 0 + Digit(w, 0)
  BY <1>1, PartSteps
<1> QED BY <1>3, <1>4, PowerZero, SMT DEF Digit

LEMMA ComplementNumber ==
  ASSUME NEW w PROVE Number(AllOnes \ w) = 2^FullBits - 1 - Number(w)
BY PartOfComplement, NumberIsPart, PlacesInRange

-----------------------------------------------------------------------------
(* The flags: what is kept, and the two new ones.                          *)
LEMMA Sixteen == 2^4 = 16 /\ 2^1 = 2 /\ 2^0 = 1
<1>1. 2^(0 + 1) = 2 * 2^0 /\ 2^(1 + 1) = 2 * 2^1 /\ 2^(2 + 1) = 2 * 2^2 /\ 2^(3 + 1) = 2 * 2^3
  BY PowerStep
<1>2. 2^1 = 2 * 2^0 /\ 2^2 = 2 * 2^1 /\ 2^3 = 2 * 2^2 /\ 2^4 = 2 * 2^3
  <2>1. 0 + 1 = 1 /\ 1 + 1 = 2 /\ 2 + 1 = 3 /\ 3 + 1 = 4
    BY SMT
  <2> QED BY <1>1, <2>1, Zenon
<1> QED BY <1>2, PowerZero, SMT

LEMMA KeptNumber ==
  ASSUME NEW f
  PROVE  Number(f \cap 4 .. LongBits - 1) = ((Number(f) % 2^LongBits) \div 16) * 16
<1> DEFINE low == f \cap 0 .. LongBits - 1
           kept == f \cap 4 .. LongBits - 1
<1>1. /\ 4 \in 0 .. FullBits /\ LongBits \in 0 .. FullBits /\ LongBits \in 4 .. FullBits
      /\ ~(FullBits <= 4) /\ ~(FullBits <= LongBits)
  BY Widths, SMT
<1>2. kept = low \ 0 .. 4 - 1
  BY SMT
<1>3. Part(low, FullBits) = Part(f, LongBits) /\ Part(low, 4) = Part(f, 4)
  <2>1. 4 <= LongBits
    BY <1>1, SMT
  <2> QED BY <1>1, <2>1, PartCut, PlacesInRange
<1>4. Part(low \ 0 .. 4 - 1, FullBits) = Part(low, FullBits) - Part(low, 4)
  BY <1>1, PartAbove, PlacesInRange
<1>5. PICK u \in Nat, t \in Nat : 2^LongBits = u * 2^4 /\ Part(f, LongBits) = t * 2^4 + Part(f, 4)
  BY <1>1, Multiples
<1>6. Part(f, 4) \in Nat /\ Part(f, 4) < 16
  BY <1>1, PartType, PartBelow, Sixteen
<1>7. Number(f) % 2^LongBits = Part(f, LongBits) /\ Number(kept) = Part(kept, FullBits)
  BY <1>1, PartModulo, NumberIsPart
<1> DEFINE g == Part(f, 4)
<1>8. (t * 16 + g) \div 16 = t
  BY <1>6, Remainder
<1>9. Number(kept) = t * 16
  <2>1. Part(kept, FullBits) = (t * 16 + g) - g
    BY <1>2, <1>3, <1>4, <1>5, Sixteen
  <2>2. (t * 16 + g) - g = t * 16
    BY <1>6, SMT
  <2> QED BY <1>7, <2>1, <2>2
<1> QED BY <1>5, <1>7, <1>8, <1>9, Sixteen

LEMMA FlagBit ==
  ASSUME NEW f, NEW k \in {0, 1}
  PROVE  Number((f \cap 4 .. LongBits - 1) \cup {k}) = Number(f \cap 4 .. LongBits - 1) + k + 1
<1> DEFINE kept == f \cap 4 .. LongBits - 1
<1>1. k \in 0 .. FullBits - 1 /\ k \notin kept /\ ~(FullBits <= k)
  BY Widths, SMT
<1>2. Part(kept \cup {k}, FullBits) = Part(kept, FullBits) + 2^k
  <2> HIDE DEF kept
  <2> QED BY <1>1, PartWithBit, PlacesInRange
<1>3. 2^k = k + 1
  <2>1. 0 + 1 = 1 /\ 1 + 1 = 2
    BY SMT
  <2> QED BY <2>1, Sixteen, Zenon
<1>4. Part(kept, FullBits) \in Nat
  BY PartType, PlacesInRange
<1> HIDE DEF kept
<1>5. Number(kept \cup {k}) = Number(kept) + k + 1
  BY <1>2, <1>3, <1>4, NumberIsPart, SMT
<1> QED BY <1>5 DEF kept

LEMMA FlagNumbers ==
  ASSUME NEW f, NEW r, NEW n
  PROVE  LET kept == ((Number(f) % 2^LongBits) \div 16) * 16
         IN IF r = {} THEN Number(FlagsUpd(f, r, n)) = kept + 1
            ELSE Number(FlagsUpd(f, r, n)) \in {kept, kept + 2}
<1> DEFINE k == f \cap 4 .. LongBits - 1
<1>1. Number(k) = ((Number(f) % 2^LongBits) \div 16) * 16 /\ Number(k) \in Nat
  BY KeptNumber, NumberType
<1>2. Number(k \cup {0}) = Number(k) + 1 /\ Number(k \cup {1}) = Number(k) + 2
  <2>1. Number(k \cup {0}) = Number(k) + 0 + 1 /\ Number(k \cup {1}) = Number(k) + 1 + 1
    BY FlagBit
  <2> QED BY <1>1, <2>1, SMT
<1>3. FlagsUpd(f, r, n) = k \cup {z \in {0} : r = {}} \cup {s \in {1} : n - 1 \in r}
  BY DEF FlagsUpd
<1> HIDE DEF k
<1>4. CASE r = {}
  <2>1. FlagsUpd(f, r, n) = k \cup {0}
    BY <1>3, <1>4
  <2> QED BY <1>1, <1>2, <1>4, <2>1
<1>5. CASE r # {}
  <2>1. FlagsUpd(f, r, n) = k \cup {1} \/ FlagsUpd(f, r, n) = k
    BY <1>3, <1>5
  <2> QED BY <1>1, <1>2, <1>5, <2>1
<1> QED BY <1>4, <1>5

(* Division, and the bits of a number.                                     *)
LEMMA Division ==
  ASSUME NEW x \in Nat, NEW m \in Nat \ {0}, NEW d, NEW e, d = x \div m, e = x % m
  PROVE  d \in Nat /\ e \in Nat /\ e < m /\ x = d * m + e
BY SMT

LEMMA Halves ==
  ASSUME NEW x \in Nat, NEW m \in Nat \ {0}
  PROVE  x \div m = 2 * (x \div (2 * m)) + ((x \div m) % 2)
<1> DEFINE d == x \div m  e == x % m  h == d \div 2  b == d % 2
<1>1. d \in Nat /\ e \in Nat /\ e < m /\ x = d * m + e
  BY Division
<1>2. h \in Nat /\ b \in Nat /\ b < 2 /\ d = h * 2 + b
  <2> HIDE DEF d
  <2> QED BY <1>1, Division
<1> HIDE DEF d, e, h, b
<1>3. x = h * (2 * m) + (b * m + e)
  <2>1. x = (h * 2 + b) * m + e
    BY <1>1, <1>2
  <2> QED BY <1>1, <1>2, <2>1, SMT
<1>4. b * m + e \in Nat /\ b * m + e < 2 * m /\ 2 * m \in Nat \ {0}
  <2>1. b = 0 \/ b = 1
    BY <1>2, SMT
  <2> QED BY <1>1, <2>1, SMT
<1>5. x \div (2 * m) = h
  <2> DEFINE p == 2 * m  r == b * m + e
  <2>1. (h * p + r) \div p = h
    <3>1. p \in Nat \ {0} /\ r \in Nat /\ r < p /\ h \in Int
      BY <1>2, <1>4
    <3> HIDE DEF p, r
    <3> QED BY <3>1, Remainder
  <2> QED BY <1>3, <2>1
<1>6. d = 2 * h + b
  BY <1>2, SMT
<1> QED BY <1>5, <1>6, Zenon DEF d, b

LEMMA SmallQuotient == ASSUME NEW x \in Nat, NEW m \in Nat \ {0}, x < m PROVE x \div m = 0
<1>1. (0 * m + x) \div m = 0
  BY Remainder
<1>2. 0 * m + x = x
  BY SMT
<1> QED BY <1>1, <1>2

LEMMA PowerGrows ==
  ASSUME NEW k \in Nat, NEW i \in Nat, k <= i PROVE 2^k <= 2^i
<1> DEFINE T == {j \in Nat : k <= j /\ ~(2^k <= 2^j)}
<1> SUFFICES ASSUME T # {} PROVE FALSE
  OBVIOUS
<1>1. PICK m \in T : \A j \in T : m <= j
  BY LeastElement
<1>2. m # k
  BY <1>1, PowerNat, SMT
<1>3. m - 1 \in Nat /\ (m - 1) + 1 = m /\ k <= m - 1 /\ ~(m <= m - 1)
  BY <1>2, SMT
<1>4. 2^((m - 1) + 1) = 2 * 2^(m - 1)
  BY <1>3, PowerStep
<1>5. 2^k <= 2^(m - 1)
  BY <1>1, <1>3
<1>6. 2^m = 2 * 2^(m - 1) /\ 2^k \in Nat /\ 2^(m - 1) \in Nat
  BY <1>3, <1>4, PowerNat
<1>7. 2^k <= 2^m
  <2> DEFINE a == 2^k  b == 2^(m - 1)  c == 2^m
  <2>1. a \in Nat /\ b \in Nat /\ c = 2 * b /\ a <= b
    BY <1>5, <1>6
  <2> HIDE DEF a, b, c
  <2>2. a <= c
    BY <2>1, SMT
  <2> QED BY <2>2 DEF a, c
<1> QED BY <1>1, <1>7

LEMMA BitsAre ==
  ASSUME NEW x \in Nat, x < 2^16, NEW i \in Nat
  PROVE  i \in Bits(x) <=> (x \div 2^i) % 2 = 1
<1>1. CASE i <= 15
  BY <1>1, SMT DEF Bits
<1>2. CASE ~(i <= 15)
  <2>1. 16 <= i
    BY <1>2, SMT
  <2>2. 2^16 <= 2^i /\ 2^16 \in Nat /\ 2^i \in Nat \ {0}
    BY <2>1, PowerGrows, PowerNat, PowerPositive
  <2> DEFINE p == 2^i  g == 2^16
  <2>3. x < p
    <3>1. x < g /\ g <= p /\ g \in Nat /\ p \in Nat
      BY <2>2
    <3> HIDE DEF p, g
    <3> QED BY <3>1, SMT
  <2>4. x \div p = 0
    <3>1. p \in Nat \ {0}
      BY <2>2
    <3> HIDE DEF p
    <3> QED BY <2>3, <3>1, SmallQuotient
  <2>5. 0 % 2 # 1
    BY SMT
  <2>6. i \notin 0 .. 15
    BY <1>2, SMT
  <2> QED BY <2>4, <2>5, <2>6 DEF Bits
<1> QED BY <1>1, <1>2

LEMMA NumberOfBits ==
  ASSUME NEW x \in Nat, x < 2^16, x < 2^FullBits
  PROVE  Number(Bits(x)) = x /\ Bits(x) \in FullWord
<1> DEFINE w == Bits(x)
           d(i) == x \div 2^i
           f == [j \in 0 .. FullBits |-> Part(w, j)]
           g == [j \in 0 .. FullBits |-> x - 2^j * d(j)]
<1>1. \A j \in Nat : 2^j \in Nat \ {0} /\ d(j) \in Nat
  <2> SUFFICES ASSUME NEW j \in Nat PROVE 2^j \in Nat \ {0} /\ d(j) \in Nat
    OBVIOUS
  <2>1. 2^j \in Nat \ {0}
    BY PowerPositive
  <2> QED BY <2>1, Division
<1>2. \A j \in 0 .. FullBits : j \in Nat
  BY Widths, SMT
<1>3. \A i \in Nat : i \in w <=> d(i) % 2 = 1
  BY BitsAre
<1>4. \A i \in Nat : d(i) = 2 * d(i + 1) + (d(i) % 2)
  <2> SUFFICES ASSUME NEW i \in Nat PROVE d(i) = 2 * d(i + 1) + (d(i) % 2)
    OBVIOUS
  <2>1. 2^(i + 1) = 2 * 2^i
    BY PowerStep
  <2>2. x \div 2^i = 2 * (x \div (2 * 2^i)) + ((x \div 2^i) % 2)
    BY <1>1, Halves
  <2> QED BY <2>1, <2>2, Zenon
<1>5. d(0) = x
  <2>1. 2^0 = 1
    BY PowerZero
  <2>2. x \div 1 = x
    BY SMT
  <2> QED BY <2>1, <2>2, Zenon
<1>6. d(FullBits) = 0
  BY <1>1, SmallQuotient, Widths
<1> HIDE DEF d, w
<1>7. f \in [0 .. FullBits -> Int] /\ g \in [0 .. FullBits -> Int]
  <2>1. \A j \in 0 .. FullBits : Part(w, j) \in Int
    BY PartType
  <2>2. \A j \in 0 .. FullBits : x - 2^j * d(j) \in Int
    BY <1>1, <1>2, SMT
  <2> QED BY <2>1, <2>2
<1>8. f[0] = g[0]
  <2>1. x - 1 * x = 0
    BY SMT
  <2>2. f[0] = 0 /\ g[0] = x - 2^0 * d(0)
    BY PartSteps, PlacesInRange
  <2> QED BY <1>5, <2>1, <2>2, PowerZero, Zenon
<1>9. ASSUME NEW j \in 1 .. FullBits PROVE f[j] - f[j - 1] = g[j] - g[j - 1]
  <2> DEFINE i == j - 1  p == 2^i  e == d(j)
  <2>1. i \in Nat /\ i + 1 = j /\ j \in 0 .. FullBits /\ i \in 0 .. FullBits /\ j \in Nat
    BY PlacesInRange, <1>2
  <2> HIDE DEF i
  <2>2. Part(w, j) = Part(w, i) + Digit(w, i) /\ Part(w, i) \in Nat
    BY <2>1, PartSteps, PartType DEF i
  <2>3. 2^j = 2 * p
    BY <2>1, PowerStep
  <2>4. d(i) = 2 * e + (d(i) % 2)
    BY <1>4, <2>1
  <2>5. p \in Nat /\ e \in Nat
    BY <1>1, <2>1
  <2>6. f[j] = Part(w, j) /\ f[j - 1] = Part(w, i) /\ g[j] = x - 2 * p * e /\ g[j - 1] = x - p * d(i)
    BY <2>1, <2>3, Zenon DEF i
  <2> HIDE DEF f, g, p, e
  <2>7. CASE d(i) % 2 = 1
    <3>1. Digit(w, i) = p
      BY <1>3, <2>1, <2>7 DEF Digit, p
    <3>2. d(i) = 2 * e + 1
      BY <2>4, <2>7
    <3>3. f[j] - f[j - 1] = p
      BY <2>2, <2>5, <2>6, <3>1, SMT
    <3>4. g[j - 1] = x - p * (2 * e + 1)
      BY <2>6, <3>2
    <3>5. (x - 2 * p * e) - (x - p * (2 * e + 1)) = p
      BY <2>5, SMT
    <3> QED BY <2>6, <3>3, <3>4, <3>5, Zenon
  <2>8. CASE d(i) % 2 # 1
    <3>0. d(i) \in Nat
      BY <1>1, <2>1
    <3>1. Digit(w, i) = 0
      BY <1>3, <2>1, <2>8 DEF Digit
    <3>2. d(i) = 2 * e + 0
      <4>1. d(i) % 2 = 0
        BY <2>8, <3>0, SMT
      <4> QED BY <2>4, <4>1, Zenon
    <3>3. f[j] - f[j - 1] = 0
      BY <2>2, <2>5, <2>6, <3>1, SMT
    <3>4. g[j - 1] = x - p * (2 * e + 0)
      BY <2>6, <3>2, Zenon
    <3>5. (x - 2 * p * e) - (x - p * (2 * e + 0)) = 0
      BY <2>5, SMT
    <3> QED BY <2>6, <3>3, <3>4, <3>5, Zenon
  <2> QED BY <2>7, <2>8
<1>10. f[FullBits] = g[FullBits]
  <2> HIDE DEF f, g
  <2>1. \A j \in 0 .. FullBits : f[j] = g[j]
    BY <1>7, <1>8, <1>9, SameBits, Zenon
  <2> QED BY <2>1, PlacesInRange
<1>11. Number(w) = x
  <2>1. f[FullBits] = Part(w, FullBits) /\ g[FullBits] = x - 2^FullBits * d(FullBits)
    BY PlacesInRange
  <2>2. 2^FullBits \in Nat
    BY PowerNat, Widths
  <2> DEFINE p == 2^FullBits
  <2>3. x - p * 0 = x
    <3>1. p \in Nat
      BY <2>2
    <3> HIDE DEF p
    <3> QED BY <3>1, SMT
  <2> QED BY <1>6, <1>10, <2>1, <2>3, NumberIsPart, Zenon
<1>12. w \in FullWord
  <2>1. ASSUME NEW i \in w PROVE i \in 0 .. FullBits - 1
    <3>1. i \in Nat
      BY DEF w, Bits
    <3>2. CASE i <= FullBits - 1
      BY <3>1, <3>2
    <3>3. CASE ~(i <= FullBits - 1)
      <4>1. FullBits <= i
        BY <3>1, <3>3, Widths, SMT
      <4>2. 2^FullBits <= 2^i /\ 2^FullBits \in Nat /\ 2^i \in Nat \ {0}
        BY <3>1, <4>1, PowerGrows, PowerNat, PowerPositive, Widths
      <4> DEFINE p == 2^i  h == 2^FullBits
      <4>3. x < p /\ p \in Nat \ {0}
        <5>1. x < h /\ h <= p /\ h \in Nat /\ p \in Nat \ {0}
          BY <4>2
        <5> HIDE DEF p, h
        <5> QED BY <5>1, SMT
      <4>4. x \div p = 0
        <5> HIDE DEF p
        <5> QED BY <4>3, SmallQuotient
      <4>5. d(i) % 2 = 1 /\ d(i) = 0
        BY <1>3, <3>1, <4>4 DEF d
      <4>6. 0 % 2 # 1
        BY SMT
      <4> QED BY <4>5, <4>6, Zenon
    <3> QED BY <3>2, <3>3
  <2> QED BY <2>1 DEF FullWord, Word
<1> QED BY <1>11, <1>12 DEF w

-----------------------------------------------------------------------------
(* A position carries into the next one as a full adder does. *)
LEMMA CarryStep ==
  ASSUME NEW n \in Nat, NEW a \in SUBSET Nat, NEW b \in SUBSET Nat, NEW i \in Nat, i + 1 < n
  PROVE  i + 1 \in Carries(a, b, n) <=>
           \/ i \in a /\ i \in b
           \/ (i \in a \/ i \in b) /\ i \in Carries(a, b, n)
<1>1. ASSUME i + 1 \in Carries(a, b, n), ~(i \in a /\ i \in b)
      PROVE  (i \in a \/ i \in b) /\ i \in Carries(a, b, n)
  <2>1. PICK j \in a \cap b : j < i + 1 /\ (j + 1) .. ((i + 1) - 1) \subseteq a \cup b
    BY <1>1 DEF Carries
  <2>2. j \in Nat /\ j < i
    BY <1>1, <2>1, SMT
  <2>3. i \in (j + 1) .. ((i + 1) - 1) /\ (j + 1) .. (i - 1) \subseteq (j + 1) .. ((i + 1) - 1)
    BY <2>2, SMT
  <2>4. i \in 1 .. n - 1
    BY <2>2, SMT
  <2> QED
    BY <2>1, <2>2, <2>3, <2>4 DEF Carries
<1>2. ASSUME i \in a, i \in b PROVE i + 1 \in Carries(a, b, n)
  <2>1. i + 1 \in 1 .. n - 1 /\ i < i + 1 /\ (i + 1) .. ((i + 1) - 1) = {}
    BY SMT
  <2> QED
    BY <1>2, <2>1 DEF Carries
<1>3. ASSUME i \in a \/ i \in b, i \in Carries(a, b, n) PROVE i + 1 \in Carries(a, b, n)
  <2>1. PICK j \in a \cap b : j < i /\ (j + 1) .. (i - 1) \subseteq a \cup b
    BY <1>3 DEF Carries
  <2>2. /\ i + 1 \in 1 .. n - 1 /\ j < i + 1
        /\ \A k \in (j + 1) .. ((i + 1) - 1) : k = i \/ k \in (j + 1) .. (i - 1)
    BY <2>1, SMT
  <2>3. (j + 1) .. ((i + 1) - 1) \subseteq a \cup b
    BY <1>3, <2>1, <2>2
  <2> QED
    BY <2>1, <2>2, <2>3 DEF Carries
<1> QED
  BY <1>1, <1>2, <1>3

LEMMA AddBits ==
  ASSUME NEW n \in Nat, NEW a, NEW b, NEW i \in 0 .. n - 1
  PROVE  i \in Add(a, b, n) <=>
           IF i \in Carries(a, b, n) THEN i \in a <=> i \in b ELSE ~(i \in a <=> i \in b)
<1>1. /\ i \in Xor(a, b) <=> ~(i \in a <=> i \in b)
      /\ i \in Xor(Xor(a, b), Carries(a, b, n)) <=> ~(i \in Xor(a, b) <=> i \in Carries(a, b, n))
  BY Zenon DEF Xor
<1>2. i \in Add(a, b, n) <=> i \in Xor(Xor(a, b), Carries(a, b, n))
  BY DEF Add
<1> QED
  BY <1>1, <1>2

(* Of two words and a carry into a place, a full adder makes one of the    *)
(* sum and a carry out of it.                                              *)
LEMMA PartOfSum ==
  ASSUME NEW a \in FullWord, NEW b \in FullWord
  PROVE  \E c \in {0, 1} :
           Number(a) + Number(b) = Number(Add(a, b, FullBits)) + c * 2^FullBits
<1> DEFINE s == Add(a, b, FullBits)
           C == Carries(a, b, FullBits + 1)
           f == [j \in 0 .. FullBits |-> Part(a, j) + Part(b, j)]
           g == [j \in 0 .. FullBits |-> Part(s, j) + Digit(C, j)]
<1>1. a \in SUBSET Nat /\ b \in SUBSET Nat /\ FullBits + 1 \in Nat
  BY Widths, SMT DEF FullWord, Word
<1>2. 0 \notin C
  BY SMT DEF Carries
<1>3. ASSUME NEW i \in 0 .. FullBits - 1 PROVE i \in C <=> i \in Carries(a, b, FullBits)
  <2>1. i \in 1 .. (FullBits + 1) - 1 <=> i \in 1 .. FullBits - 1
    BY Widths, SMT
  <2> QED BY <2>1 DEF Carries
<1>4. ASSUME NEW i \in 0 .. FullBits - 1
      PROVE  i + 1 \in C <=> (i \in a /\ i \in b) \/ ((i \in a \/ i \in b) /\ i \in C)
  <2>1. i \in Nat /\ i + 1 < FullBits + 1
    BY Widths, SMT
  <2> DEFINE n == FullBits + 1
  <2>2. i + 1 \in Carries(a, b, n) <=>
           \/ i \in a /\ i \in b
           \/ (i \in a \/ i \in b) /\ i \in Carries(a, b, n)
    <3>1. n \in Nat /\ i + 1 < n
      BY <1>1, <2>1
    <3> HIDE DEF n
    <3> QED BY <1>1, <2>1, <3>1, CarryStep, Zenon
  <2> QED BY <2>2
<1>5. ASSUME NEW i \in 0 .. FullBits - 1
      PROVE  i \in s <=> IF i \in C THEN i \in a <=> i \in b ELSE ~(i \in a <=> i \in b)
  <2>1. i \in s <=> IF i \in Carries(a, b, FullBits) THEN i \in a <=> i \in b ELSE ~(i \in a <=> i \in b)
    BY AddBits, Widths
  <2> QED BY <1>3, <2>1
<1> HIDE DEF s, C
<1>6. f \in [0 .. FullBits -> Int] /\ g \in [0 .. FullBits -> Int]
  <2>1. \A j \in 0 .. FullBits : /\ Part(a, j) \in Int /\ Part(b, j) \in Int /\ Part(s, j) \in Int
                                 /\ Digit(C, j) \in Int
    <3> TAKE j \in 0 .. FullBits
    <3>1. j \in Nat
      BY Widths, SMT
    <3>2. Part(a, j) \in Nat /\ Part(b, j) \in Nat /\ Part(s, j) \in Nat /\ Digit(C, j) \in Nat
      BY <3>1, PartType, DigitType
    <3> QED BY <3>2, SMT
  <2>2. \A j \in 0 .. FullBits : Part(a, j) + Part(b, j) \in Int /\ Part(s, j) + Digit(C, j) \in Int
    BY <2>1, SMT
  <2> QED BY <2>2
<1>7. f[0] = g[0]
  <2>1. Digit(C, 0) = 0
    BY <1>2 DEF Digit
  <2> QED BY <2>1, PartSteps, PlacesInRange
<1>8. ASSUME NEW j \in 1 .. FullBits PROVE f[j] - f[j - 1] = g[j] - g[j - 1]
  <2> DEFINE i == j - 1  p == 2^i
  <2>1. i \in 0 .. FullBits - 1 /\ i + 1 = j /\ j \in 0 .. FullBits /\ i \in 0 .. FullBits /\ i \in Nat
    BY PlacesInRange, SMT
  <2>2. /\ Part(a, j) = Part(a, i) + Digit(a, i) /\ Part(b, j) = Part(b, i) + Digit(b, i)
        /\ Part(s, j) = Part(s, i) + Digit(s, i)
    BY PartSteps
  <2>3. f[j] = Part(a, j) + Part(b, j) /\ f[j - 1] = Part(a, i) + Part(b, i)
        /\ g[j] = Part(s, j) + Digit(C, j) /\ g[j - 1] = Part(s, i) + Digit(C, i)
    BY <2>1
  <2> HIDE DEF i, f, g
  <2>4. Part(a, i) \in Nat /\ Part(b, i) \in Nat /\ Part(s, i) \in Nat /\ p \in Nat
    BY <2>1, PartType, PowerNat
  <2>5. 2^j = 2 * p
    BY <2>1, PowerStep
  <2>6. Digit(a, i) + Digit(b, i) + Digit(C, i) = Digit(s, i) + Digit(C, j)
        /\ Digit(a, i) \in Nat /\ Digit(b, i) \in Nat /\ Digit(C, i) \in Nat /\ Digit(s, i) \in Nat
        /\ Digit(C, j) \in Nat
    <3>1. /\ Digit(a, i) = IF i \in a THEN p ELSE 0
          /\ Digit(b, i) = IF i \in b THEN p ELSE 0
          /\ Digit(s, i) = IF i \in s THEN p ELSE 0
          /\ Digit(C, i) = IF i \in C THEN p ELSE 0
          /\ Digit(C, j) = IF j \in C THEN 2 * p ELSE 0
      BY <2>5 DEF Digit
    <3>2. j \in C <=> (i \in a /\ i \in b) \/ ((i \in a \/ i \in b) /\ i \in C)
      BY <1>4, <2>1
    <3>3. i \in s <=> IF i \in C THEN i \in a <=> i \in b ELSE ~(i \in a <=> i \in b)
      BY <1>5, <2>1
    <3> HIDE DEF p, i
    <3>4. CASE i \in C
      BY <2>4, <3>1, <3>2, <3>3, <3>4, SMT
    <3>5. CASE i \notin C
      BY <2>4, <3>1, <3>2, <3>3, <3>5, SMT
    <3> QED BY <3>4, <3>5
  <2> HIDE DEF p
  <2> QED BY <2>2, <2>3, <2>4, <2>6, SMT
<1>9. f[FullBits] = g[FullBits]
  <2> HIDE DEF f, g
  <2>1. \A j \in 0 .. FullBits : f[j] = g[j]
    BY <1>6, <1>7, <1>8, SameBits, Zenon
  <2> QED BY <2>1, PlacesInRange
<1>10. Number(a) + Number(b) = Number(s) + Digit(C, FullBits)
  BY <1>9, NumberIsPart, PlacesInRange
<1>11. 2^FullBits \in Nat
  BY PowerNat, Widths
<1>12. CASE FullBits \in C
  <2>1. Digit(C, FullBits) = 1 * 2^FullBits
    BY <1>11, <1>12, SMT DEF Digit
  <2> QED BY <1>10, <2>1 DEF s
<1>13. CASE FullBits \notin C
  <2>1. Digit(C, FullBits) = 0 * 2^FullBits
    BY <1>11, <1>13, SMT DEF Digit
  <2> QED BY <1>10, <2>1 DEF s
<1> QED BY <1>12, <1>13

LEMMA SumNumber ==
  ASSUME NEW a \in FullWord, NEW b \in FullWord
  PROVE  Number(Add(a, b, FullBits)) = (Number(a) + Number(b)) % 2^FullBits
<1> DEFINE r == Number(Add(a, b, FullBits))  m == 2^FullBits
<1>1. PICK c \in {0, 1} : Number(a) + Number(b) = r + c * m
  BY PartOfSum
<1>2. r \in 0 .. m - 1 /\ m \in Nat \ {0}
  BY NumberInRange, PowerPositive, Widths
<1> HIDE DEF r, m
<1>3. r + c * m = c * m + r /\ r \in Nat /\ r < m /\ c \in Int
  BY <1>2, SMT
<1>4. (c * m + r) % m = r
  BY <1>2, <1>3, Remainder
<1> QED BY <1>1, <1>3, <1>4 DEF r, m

LEMMA DifferenceNumber ==
  ASSUME NEW a \in FullWord, NEW b \in FullWord
  PROVE  Number(Sub(a, b, FullBits)) = (Number(a) - Number(b)) % 2^FullBits
<1> DEFINE n == AllOnes \ a
           s == Number(Add(n, b, FullBits))
           r == Number(Sub(a, b, FullBits))
           m == 2^FullBits
           x == Number(a)
           y == Number(b)
<1>1. n \in FullWord /\ Number(n) = m - 1 - x
  BY ComplementNumber DEF FullWord, Word, AllOnes
<1>2. PICK c \in {0, 1} : Number(n) + y = s + c * m
  <2> HIDE DEF n
  <2> QED BY <1>1, PartOfSum
<1>3. r = m - 1 - s
  <2>1. Sub(a, b, FullBits) = AllOnes \ Add(n, b, FullBits)
    BY DEF Sub, AllOnes
  <2> QED BY <2>1, ComplementNumber
<1>4. /\ r \in 0 .. m - 1 /\ m \in Nat \ {0} /\ s \in Nat /\ x \in Nat /\ y \in Nat
  BY NumberInRange, NumberType, PowerPositive, Widths
<1> HIDE DEF n, s, r, m, x, y
<1>5. x - y = (-c) * m + r /\ r \in Nat /\ r < m /\ -c \in Int
  <2>1. c = 0 \/ c = 1
    OBVIOUS
  <2> QED BY <1>1, <1>2, <1>3, <1>4, <2>1, SMT
<1>6. ((-c) * m + r) % m = r
  BY <1>4, <1>5, Remainder
<1> QED BY <1>5, <1>6 DEF r, m, x, y

-----------------------------------------------------------------------------
(* What every step of a recursion keeps, all its values have.              *)
LEMMA StepsStay ==
  ASSUME NEW len \in Nat, NEW R, NEW s, s[0] \in R,
         \A i \in 1 .. len : s[i - 1] \in R => s[i] \in R
  PROVE  \A i \in 0 .. len : s[i] \in R
<1> DEFINE T == {i \in 0 .. len : s[i] \notin R}
<1> SUFFICES ASSUME T # {} PROVE FALSE
  OBVIOUS
<1>1. PICK m \in T : \A i \in T : m <= i
  <2>1. T \in SUBSET Nat
    BY SMT
  <2> HIDE DEF T
  <2> QED BY <2>1, LeastElement
<1>2. m \in 0 .. len /\ m # 0
  OBVIOUS
<1>3. m \in 1 .. len /\ m - 1 \in 0 .. len /\ ~(m <= m - 1)
  BY <1>2, SMT
<1>4. s[m - 1] \in R
  BY <1>1, <1>3
<1> QED BY <1>3, <1>4

(* Every operation yields a word.                                          *)
LEMMA XorWord == ASSUME NEW n, NEW a \in Word(n), NEW b \in Word(n) PROVE Xor(a, b) \in Word(n)
BY DEF Word, Xor

LEMMA ShiftLeftWord == ASSUME NEW a, NEW k, NEW n PROVE ShiftLeft(a, k, n) \in Word(n)
BY DEF Word, ShiftLeft

LEMMA ShiftRightWord ==
  ASSUME NEW k \in Nat, NEW n \in Nat, NEW a \in Word(n) PROVE ShiftRight(a, k) \in Word(n)
<1>1. ASSUME NEW i \in a, i >= k PROVE i - k \in 0 .. n - 1
  <2>1. i \in 0 .. n - 1
    BY DEF Word
  <2> QED BY <1>1, <2>1, SMT
<1> QED BY <1>1 DEF Word, ShiftRight

LEMMA RotationWords ==
  ASSUME NEW n \in Nat \ {0}, NEW a \in Word(n), NEW s \in Nat
  PROVE  Rol(a, s, n) \in Word(n) /\ Ror(a, s, n) \in Word(n)
<1> DEFINE k == s % n
<1>1. k \in Nat /\ n - k \in Nat /\ n \in Nat
  BY SMT
<1> HIDE DEF k
<1>2. /\ ShiftLeft(a, k, n) \in Word(n) /\ ShiftLeft(a, n - k, n) \in Word(n)
      /\ ShiftRight(a, k) \in Word(n) /\ ShiftRight(a, n - k) \in Word(n)
  BY <1>1, ShiftLeftWord, ShiftRightWord
<1>3. \A x, y \in Word(n) : x \cup y \in Word(n)
  BY DEF Word
<1> QED BY <1>2, <1>3 DEF Rol, Ror, k

LEMMA SumWords ==
  ASSUME NEW n, NEW a, NEW b PROVE Add(a, b, n) \in Word(n) /\ Sub(a, b, n) \in Word(n)
BY DEF Word, Add, Sub

LEMMA ByteWord == ASSUME NEW w, NEW i PROVE Byte(w, i, ByteBits) \in Octet
BY DEF Octet, Word, Byte

LEMMA XTimeWord == ASSUME NEW b \in Octet PROVE XTime(b) \in Octet
<1>1. Reduction \in Octet /\ {} \in Octet
  BY ByteAssumption DEF Octet, Word
<1>2. ShiftLeft(b, 1, ByteBits) \in Octet
  BY ShiftLeftWord DEF Octet
<1> QED BY <1>1, <1>2, XorWord DEF XTime, Octet

LEMMA Wider ==
  /\ Octet \subseteq FullWord /\ Octet \subseteq Word(LongBits) /\ Word(LongBits) \subseteq FullWord
  /\ {} \in FullWord /\ {0} \in FullWord /\ {1} \in FullWord /\ AllOnes \in FullWord
<1>1. /\ 0 .. ByteBits - 1 \subseteq 0 .. FullBits - 1 /\ 0 .. LongBits - 1 \subseteq 0 .. FullBits - 1
      /\ 0 .. ByteBits - 1 \subseteq 0 .. LongBits - 1
      /\ 0 \in 0 .. FullBits - 1 /\ 1 \in 0 .. FullBits - 1
  BY Widths, SMT
<1> QED BY <1>1 DEF Octet, FullWord, Word, AllOnes

LEMMA Mix32Type == ASSUME NEW a \in Column PROVE Mix32(a) \in Column
<1> DEFINE x == [i \in 0 .. 3 |-> XTime(a[i])]
<1>1. /\ 0 \in 0 .. 3 /\ 1 \in 0 .. 3 /\ 2 \in 0 .. 3 /\ 3 \in 0 .. 3
      /\ \A i \in 0 .. 3 : i = 0 \/ i = 1 \/ i = 2 \/ i = 3
  BY SMT
<1>2. \A i \in 0 .. 3 : a[i] \in Octet /\ x[i] \in Octet
  BY XTimeWord DEF Column
<1>3. \A u, v \in Octet : Xor(u, v) \in Octet
  BY XorWord DEF Octet
<1> HIDE DEF x
<1>4. /\ Xor(Xor(x[0], Xor(x[1], a[1])), Xor(a[2], a[3])) \in Octet
      /\ Xor(Xor(a[0], x[1]), Xor(Xor(x[2], a[2]), a[3])) \in Octet
      /\ Xor(Xor(a[0], a[1]), Xor(x[2], Xor(x[3], a[3]))) \in Octet
      /\ Xor(Xor(Xor(x[0], a[0]), a[1]), Xor(a[2], x[3])) \in Octet
  BY <1>1, <1>2, <1>3
<1>5. Mix32(a) =
      [i \in 0 .. 3 |->
        CASE i = 0 -> Xor(Xor(x[0], Xor(x[1], a[1])), Xor(a[2], a[3]))
          [] i = 1 -> Xor(Xor(a[0], x[1]), Xor(Xor(x[2], a[2]), a[3]))
          [] i = 2 -> Xor(Xor(a[0], a[1]), Xor(x[2], Xor(x[3], a[3])))
          [] i = 3 -> Xor(Xor(Xor(x[0], a[0]), a[1]), Xor(a[2], x[3]))]
  BY Zenon DEF Mix32, x
<1>6. ASSUME NEW i \in 0 .. 3 PROVE Mix32(a)[i] \in Octet
  BY <1>1, <1>4, <1>5
<1>7. Mix32(a) = [i \in 0 .. 3 |-> Mix32(a)[i]]
  BY <1>5
<1> QED BY <1>6, <1>7 DEF Column

LEMMA PackWord ==
  ASSUME NEW r \in Column PROVE Pack(r, ByteBits) \in Word(LongBits)
<1>1. ASSUME NEW i \in 0 .. 3, NEW j \in r[i] PROVE i * ByteBits + j \in 0 .. LongBits - 1
  <2>1. j \in 0 .. ByteBits - 1
    BY DEF Column, Octet, Word
  <2>2. i = 0 \/ i = 1 \/ i = 2 \/ i = 3
    BY SMT
  <2> QED BY <2>1, <2>2, Widths, SMT
<1> QED BY <1>1 DEF Pack, Word

LEMMA MixWords ==
  ASSUME NEW c PROVE Mix32Word(c) \in Word(LongBits) /\ Mix64(c) \in FullWord
<1>1. \A d : Mix32Word(d) \in Word(LongBits)
  <2> TAKE d
  <2> DEFINE r == [i \in 0 .. 3 |-> Word32Byte(d, i)]
  <2>1. r \in Column
    BY ByteWord DEF Word32Byte, Column
  <2> HIDE DEF r
  <2>2. Mix32(r) \in Column
    BY <2>1, Mix32Type
  <2> QED BY <2>2, PackWord DEF Mix32Word, r
<1>2. \A u : \A v \in Word(LongBits) : From32(u, v) \in FullWord
  <2>1. \A u : ShiftLeft(u, LongBits, FullBits) \in FullWord
    BY ShiftLeftWord DEF FullWord
  <2>2. \A v \in Word(LongBits) : v \in FullWord
    BY Wider
  <2> QED BY <2>1, <2>2 DEF From32, FullWord, Word
<1> QED BY <1>1, <1>2 DEF Mix64

LEMMA XorShiftsWord ==
  ASSUME NEW v \in FullWord, NEW ks \in Seq(Nat) PROVE XorShifts(v, ks) \in FullWord
<1> DEFINE len == Len(ks)
           next(w, i) == Xor(w, ShiftRight(w, ks[i]))
           Body(x) == x = [i \in 0 .. len |-> IF i = 0 THEN v ELSE next(x[i - 1], i)]
           x == CHOOSE y : Body(y)
           step == [i \in 0 .. len |-> [w \in FullWord |-> IF i = 0 THEN w ELSE next(w, i)]]
<1>1. len \in Nat /\ \A i \in 1 .. len : ks[i] \in Nat
  OBVIOUS
<1>2. ASSUME NEW w \in FullWord, NEW i \in 1 .. len PROVE next(w, i) \in FullWord
  BY <1>1, Widths, ShiftRightWord, XorWord DEF FullWord
<1> HIDE DEF next, len
<1>3. step \in [0 .. len -> [FullWord -> FullWord]]
  <2>1. ASSUME NEW i \in 0 .. len, NEW w \in FullWord
        PROVE  (IF i = 0 THEN w ELSE next(w, i)) \in FullWord
    <3>1. i = 0 \/ i \in 1 .. len
      BY <1>1, SMT
    <3> QED BY <1>2, <3>1
  <2> QED BY <2>1
<1>4. \A i \in 0 .. len, w \in FullWord : step[i][w] = IF i = 0 THEN w ELSE next(w, i)
  OBVIOUS
<1> HIDE DEF step
<1>5. PICK h : h \in [0 .. len -> FullWord] /\ Recursion(h, len, v, step)
  BY <1>1, <1>3, ByRecursion
<1>6. ASSUME NEW i \in 0 .. len, i # 0 PROVE step[i][h[i - 1]] = next(h[i - 1], i)
  <2>1. i - 1 \in 0 .. len
    BY <1>1, <1>6, SMT
  <2>2. h[i - 1] \in FullWord
    BY <1>5, <2>1
  <2> QED BY <1>4, <1>6, <2>2
<1>7. h = [i \in 0 .. len |-> IF i = 0 THEN v ELSE step[i][h[i - 1]]]
  BY <1>5 DEF Recursion
<1>8. Body(h)
  BY <1>6, <1>7, Zenon
<1>9. Body(x)
  BY <1>8, Zenon
<1> HIDE DEF x
<1>10. x[0] = v /\ \A i \in 1 .. len : x[i] = next(x[i - 1], i)
  <2>1. \A i \in 0 .. len : x[i] = IF i = 0 THEN v ELSE next(x[i - 1], i)
    BY <1>9, Zenon
  <2>2. 0 \in 0 .. len /\ \A i \in 1 .. len : i \in 0 .. len /\ i # 0
    BY <1>1, SMT
  <2> QED BY <2>1, <2>2
<1>11. \A i \in 0 .. len : x[i] \in FullWord
  <2>1. \A i \in 1 .. len : x[i - 1] \in FullWord => x[i] \in FullWord
    BY <1>2, <1>10
  <2>2. x[0] \in FullWord
    BY <1>10
  <2> QED BY <1>1, <2>1, <2>2, StepsStay
<1>12. x[len] \in FullWord
  BY <1>1, <1>11, SMT
<1>13. XorShifts(v, ks) = x[len]
  BY Zenon DEF XorShifts, x, len, next
<1> QED BY <1>12, <1>13

LEMMA FoldWord ==
  ASSUME NEW a \in FullWord, NEW b \in FullWord, NEW c \in FullWord, NEW d \in FullWord
  PROVE  Fold64(a, b, c, d) \in FullWord
<1>1. Halving \in Seq(Nat)
  BY SMT DEF Halving
<1>2. Xor(Xor(a, b), Xor(c, d)) \in FullWord
  BY XorWord DEF FullWord
<1> QED BY <1>1, <1>2, XorShiftsWord DEF Fold64, Folded

LEMMA GfMulWord == ASSUME NEW a \in Octet, NEW b PROVE GfMul(a, b) \in Octet
<1> DEFINE len == ByteBits
           P == [p : Octet, a : Octet]
           start == [p |-> {}, a |-> a]
           doubled(w) == Xor(ShiftLeft(w, 1, ByteBits), IF ByteBits - 1 \in w THEN Reduction ELSE {})
           next(s, i) == [p |-> IF i - 1 \in b THEN Xor(s.p, s.a) ELSE s.p, a |-> doubled(s.a)]
           Body(x) == x = [i \in 0 .. len |-> IF i = 0 THEN start ELSE next(x[i - 1], i)]
           x == CHOOSE y : Body(y)
           step == [i \in 0 .. len |-> [s \in P |-> IF i = 0 THEN s ELSE next(s, i)]]
<1>1. len \in Nat
  BY Widths
<1>2. {} \in Octet /\ start \in P
  BY DEF Octet, Word
<1>3. ASSUME NEW s \in P, NEW i PROVE next(s, i) \in P
  <2>1. s.p \in Octet /\ s.a \in Octet
    OBVIOUS
  <2>2. doubled(s.a) \in Octet
    BY <2>1, XTimeWord DEF XTime
  <2>3. Xor(s.p, s.a) \in Octet
    BY <2>1, XorWord DEF Octet
  <2> QED BY <2>1, <2>2, <2>3
<1> HIDE DEF next, len, start, P
<1>4. step \in [0 .. len -> [P -> P]]
  <2>1. ASSUME NEW i \in 0 .. len, NEW s \in P
        PROVE  (IF i = 0 THEN s ELSE next(s, i)) \in P
    BY <1>3
  <2> QED BY <2>1
<1>5. \A i \in 0 .. len, s \in P : step[i][s] = IF i = 0 THEN s ELSE next(s, i)
  OBVIOUS
<1> HIDE DEF step
<1>6. PICK h : h \in [0 .. len -> P] /\ Recursion(h, len, start, step)
  BY <1>1, <1>2, <1>4, ByRecursion
<1>7. ASSUME NEW i \in 0 .. len, i # 0 PROVE step[i][h[i - 1]] = next(h[i - 1], i)
  <2>1. i - 1 \in 0 .. len
    BY <1>1, <1>7, SMT
  <2>2. h[i - 1] \in P
    BY <1>6, <2>1
  <2> QED BY <1>5, <1>7, <2>2
<1>8. h = [i \in 0 .. len |-> IF i = 0 THEN start ELSE step[i][h[i - 1]]]
  BY <1>6 DEF Recursion
<1>9. Body(h)
  BY <1>7, <1>8, Zenon
<1>10. Body(x)
  BY <1>9, Zenon
<1> HIDE DEF x
<1>11. x[0] = start /\ \A i \in 1 .. len : x[i] = next(x[i - 1], i)
  <2>1. \A i \in 0 .. len : x[i] = IF i = 0 THEN start ELSE next(x[i - 1], i)
    BY <1>10, Zenon
  <2>2. 0 \in 0 .. len /\ \A i \in 1 .. len : i \in 0 .. len /\ i # 0
    BY <1>1, SMT
  <2> QED BY <2>1, <2>2
<1>12. \A i \in 0 .. len : x[i] \in P
  <2>1. \A i \in 1 .. len : x[i - 1] \in P => x[i] \in P
    BY <1>3, <1>11
  <2>2. x[0] \in P
    BY <1>2, <1>11
  <2> QED BY <1>1, <2>1, <2>2, StepsStay
<1>13. x[len] \in P
  BY <1>1, <1>12, SMT
<1>14. GfMul(a, b) = x[len].p
  BY Zenon DEF GfMul, x, len, next, start
<1> QED BY <1>13, <1>14 DEF P

LEMMA FlagsWord ==
  ASSUME NEW i, NEW f \in FullWord, NEW a, NEW b, NEW r PROVE Flags(i, f, a, b, r) \in FullWord
<1>1. \A t, n : FlagsUpd(f, t, n) \in FullWord
  <2>1. 0 \in 0 .. FullBits - 1 /\ 1 \in 0 .. FullBits - 1
    BY Widths, SMT
  <2> QED BY <2>1 DEF FlagsUpd, FullWord, Word
<1> QED BY <1>1, Zenon DEF Flags

LEMMA ResultWord ==
  ASSUME NEW i, NEW f, NEW a \in FullWord, NEW b \in FullWord, i.imm \in FullWord
  PROVE  Result(i, f, a, b) \in FullWord
<1>1. a \in Word(FullBits) /\ b \in Word(FullBits) /\ FullBits \in Nat \ {0} /\ FullBits \in Nat
  BY Widths, SMT DEF FullWord
<1>2. Amount(b) \in Nat
  BY NumberType DEF Amount
<1>3. /\ Xor(a, b) \in FullWord /\ a \cap b \in FullWord /\ a \cup b \in FullWord
      /\ AllOnes \ a \in FullWord
  BY <1>1, XorWord DEF FullWord, Word, AllOnes
<1>4. /\ ShiftLeft(a, Amount(b), FullBits) \in FullWord /\ ShiftRight(a, Amount(b)) \in FullWord
  BY <1>1, <1>2, ShiftLeftWord, ShiftRightWord DEF FullWord
<1>5. /\ Rol(a, Amount(b), FullBits) \in FullWord /\ Ror(a, Amount(b), FullBits) \in FullWord
  BY <1>1, <1>2, RotationWords DEF FullWord
<1>6. /\ Add(a, b, FullBits) \in FullWord /\ Sub(a, b, FullBits) \in FullWord
  BY SumWords DEF FullWord
<1>7. /\ XTime(Byte(a, 0, ByteBits)) \in FullWord
      /\ GfMul(Byte(a, 0, ByteBits), Byte(b, 0, ByteBits)) \in FullWord
  BY ByteWord, XTimeWord, GfMulWord, Wider
<1>8. Mix32Word(Lo32(a)) \in FullWord /\ Mix64(a) \in FullWord
  BY MixWords, Wider
<1>9. Fold64(a, b, i.imm, {}) \in FullWord /\ {} \in FullWord /\ {0} \in FullWord /\ {1} \in FullWord
  BY FoldWord, Wider
<1> QED BY <1>3, <1>4, <1>5, <1>6, <1>7, <1>8, <1>9, Zenon DEF Result

-----------------------------------------------------------------------------
(* The abstract machine's view of a register file.                         *)
NumbersOf(rs) == [r \in Regs |-> Number(rs[r])]

LEMMA NumbersChosen ==
  ASSUME NEW rs
  PROVE  (CHOOSE n \in {[r \in Regs |-> Number(rs[r])]} : n \in [Regs -> Nat]) = NumbersOf(rs)
<1>1. NumbersOf(rs) \in [Regs -> Nat]
  BY NumberType DEF NumbersOf
<1>2. [r \in Regs |-> Number(rs[r])] = NumbersOf(rs)
  BY DEF NumbersOf
<1> QED BY <1>1, <1>2

LEMMA NumbersNow == Numbers = NumbersOf(regs) /\ Numbers' = NumbersOf(regs')
<1>1. Numbers = NumbersOf(regs)
  BY NumbersChosen, Zenon DEF Numbers
<1>2. Numbers' = NumbersOf(regs')
  BY NumbersChosen, Zenon DEF Numbers
<1> QED BY <1>1, <1>2

LEMMA SameNames ==
  /\ M!Regs = Regs /\ M!Operand = Operand /\ M!Opcodes = Opcodes
  /\ {"PC", "DEPTH", "OUT_PTR", "FLAGS", "ACC0"} \subseteq Regs
  /\ "none" \notin Regs /\ "bad" \notin Regs /\ "bad" \notin Opcodes
<1>1. M!Opcodes = Opcodes
  BY DEF M!Opcodes, M!BitOps, M!ExactOps, Opcodes
<1>2. "none" \notin Regs /\ "bad" \notin Regs
  BY RegisterNames DEF RegisterNames, Regs
<1> QED BY <1>1, <1>2 DEF M!Regs, Regs, M!Operand, Operand, Opcodes

LEMMA NumbersRead ==
  ASSUME NEW r PROVE M!Read(r) = Number(Read(r))
BY NumbersNow, SameNames, NumberOfZero DEF M!Read, Read, NumbersOf

LEMMA ReadWordType ==
  ASSUME regs \in [Regs -> FullWord], NEW r PROVE Read(r) \in FullWord
BY Wider DEF Read

LEMMA NumbersWritten ==
  ASSUME NEW rs \in [Regs -> FullWord], NEW r, NEW v \in FullWord
  PROVE  /\ Written(rs, r, v) \in [Regs -> FullWord]
         /\ NumbersOf(Written(rs, r, v)) = M!Written(NumbersOf(rs), r, Number(v))
BY SameNames DEF Written, M!Written, NumbersOf

LEMMA NumbersSet ==
  ASSUME NEW rs \in [Regs -> FullWord], NEW r \in Regs, NEW v \in FullWord
  PROVE  /\ [rs EXCEPT ![r] = v] \in [Regs -> FullWord]
         /\ NumbersOf([rs EXCEPT ![r] = v]) = [NumbersOf(rs) EXCEPT ![r] = Number(v)]
BY DEF NumbersOf

LEMMA ZeroNumber ==
  ASSUME NEW w \in FullWord PROVE Number(w) = 0 <=> w = {}
BY NumberOneToOne, NumberOfZero, Wider

LEMMA MapsRange == ASSUME NEW w PROVE Number(w) \in M!Word
BY NumberInRange DEF M!Word

LEMMA SmallNumbers == Number({}) = 0 /\ Number({0}) = 1 /\ Number({1}) = 2
<1> DEFINE e == {} \cap 4 .. LongBits - 1
<1>1. e = {}
  OBVIOUS
<1>2. Number(e \cup {0}) = Number(e) + 0 + 1 /\ Number(e \cup {1}) = Number(e) + 1 + 1
  BY FlagBit
<1>3. {} \cup {0} = {0} /\ {} \cup {1} = {1}
  OBVIOUS
<1> HIDE DEF e
<1>4. Number({0}) = 0 + 0 + 1 /\ Number({1}) = 0 + 1 + 1
  BY <1>1, <1>2, <1>3, NumberOfZero
<1> QED BY <1>4, NumberOfZero, SMT

(* What an operation yields is what the abstract one may yield.            *)
LEMMA ResultMaps ==
  ASSUME regs \in [Regs -> FullWord], NEW a \in FullWord, NEW b \in FullWord, NEW i, i.op \in Opcodes,
         i.op \notin {"HALT", "TRAP", "XCHG", "EMIT", "RECURSE"}
  PROVE  Number(Result(i, regs["FLAGS"], a, b)) \in M!Results(i.op, Number(a), Number(b))
<1> DEFINE f == regs["FLAGS"]
           r == Result(i, f, a, b)
<1>1. Number(r) \in M!Word
  BY MapsRange
<1>2. CASE i.op \in M!BitOps
  BY <1>1, <1>2 DEF M!Results, M!BitOps
<1>3. CASE i.op = "MOV"
  BY <1>3 DEF Result, M!Results, M!BitOps
<1>4. CASE i.op = "NOT"
  <2>1. r = AllOnes \ a
    BY <1>4 DEF Result
  <2>2. M!Results(i.op, Number(a), Number(b)) = {2^FullBits - 1 - Number(a)}
    BY <1>4 DEF M!Results, M!BitOps
  <2> QED BY <2>1, <2>2, ComplementNumber
<1>5. CASE i.op \in {"ADD", "ACC"}
  <2>1. r = Add(a, b, FullBits)
    BY <1>5 DEF Result
  <2>2. M!Results(i.op, Number(a), Number(b)) = {(Number(a) + Number(b)) % 2^FullBits}
    BY <1>5 DEF M!Results, M!BitOps
  <2> QED BY <2>1, <2>2, SumNumber
<1>6. CASE i.op = "SUB"
  <2>1. r = Sub(a, b, FullBits)
    BY <1>6 DEF Result
  <2>2. M!Results(i.op, Number(a), Number(b)) = {(Number(a) - Number(b)) % 2^FullBits}
    BY <1>6 DEF M!Results, M!BitOps
  <2> QED BY <2>1, <2>2, DifferenceNumber
<1>7. CASE i.op = "CMP"
  <2>1. r = IF a = b THEN {} ELSE IF Greater(a, b) THEN {0} ELSE {1}
    BY <1>7 DEF Result
  <2>2. M!Results(i.op, Number(a), Number(b)) =
          {IF Number(a) = Number(b) THEN 0 ELSE IF Number(a) > Number(b) THEN 1 ELSE 2}
    BY <1>7 DEF M!Results, M!BitOps
  <2>3. Number({}) = 0 /\ Number({0}) = 1 /\ Number({1}) = 2
    BY SmallNumbers
  <2>4. Number(a) \in Nat /\ Number(b) \in Nat
    BY NumberType
  <2>5. CASE a = b
    BY <2>1, <2>2, <2>3, <2>5
  <2>6. CASE a # b /\ Max(Xor(a, b)) \in a
    <3>1. Number(b) < Number(a)
      BY <2>6, GreaterNumber
    <3>2. Number(a) # Number(b) /\ Number(a) > Number(b)
      BY <2>4, <3>1, SMT
    <3> QED BY <2>1, <2>2, <2>3, <2>6, <3>2 DEF Greater
  <2>7. CASE a # b /\ ~(Max(Xor(a, b)) \in a)
    <3>1. Number(a) < Number(b)
      BY <2>7, LesserNumber
    <3>2. Number(a) # Number(b) /\ ~(Number(a) > Number(b))
      BY <2>4, <3>1, SMT
    <3> QED BY <2>1, <2>2, <2>3, <2>7, <3>2 DEF Greater
  <2> QED BY <2>5, <2>6, <2>7
<1>8. CASE i.op = "SELECT"
  <2>1. r = IF 0 \in f THEN b ELSE a
    BY <1>8 DEF Result
  <2>2. M!Results(i.op, Number(a), Number(b)) = {IF Numbers["FLAGS"] % 2 = 1 THEN Number(b) ELSE Number(a)}
    BY <1>8 DEF M!Results, M!BitOps
  <2>3. Numbers["FLAGS"] = Number(f)
    BY NumbersNow, SameNames DEF NumbersOf
  <2>4. Number(f) % 2 = IF 0 \in f THEN 1 ELSE 0
    BY LowestBit
  <2> HIDE DEF f, r
  <2>5. Numbers["FLAGS"] % 2 = 1 <=> 0 \in f
    BY <2>3, <2>4
  <2> QED BY <2>1, <2>2, <2>5 DEF f, r
<1>9. CASE i.op \in {"NOP", "LOAD", "STORE", "LOAD64", "SRC_INJ"}
  <2>1. r = {}
    BY <1>9, Zenon DEF Result
  <2>2. M!Results(i.op, Number(a), Number(b)) = {0}
    BY <1>9, Zenon DEF M!Results, M!BitOps
  <2> QED BY <2>1, <2>2, NumberOfZero
<1> QED BY <1>2, <1>3, <1>4, <1>5, <1>6, <1>7, <1>8, <1>9 DEF Opcodes, M!BitOps

LEMMA FlagsMap ==
  ASSUME regs \in [Regs -> FullWord], NEW a \in FullWord, NEW b \in FullWord, NEW r \in FullWord,
         NEW i, i.op \in Opcodes, i.op \notin {"HALT", "TRAP", "XCHG", "EMIT", "RECURSE"}
  PROVE  Number(Flags(i, regs["FLAGS"], a, b, r)) \in M!FlagWords(i.op, Number(a), Number(b), Number(r))
<1> DEFINE f == regs["FLAGS"]
           kept == ((Number(f) % 2^LongBits) \div 16) * 16
           zero == IF i.op = "CMP" THEN Number(a) = Number(b) ELSE Number(r) = 0
           clear == IF i.op = "CMP" THEN Xor(a, b) = {} ELSE r = {}
           new == Number(Flags(i, f, a, b, r))
<1>1. Numbers["FLAGS"] = Number(f)
  BY NumbersNow, SameNames DEF NumbersOf
<1>2. M!FlagWords(i.op, Number(a), Number(b), Number(r)) =
        IF i.op \notin M!FlagOps THEN {Number(f)} ELSE IF zero THEN {kept + 1} ELSE {kept, kept + 2}
  BY <1>1, Zenon DEF M!FlagWords
<1>3. zero <=> clear
  <2>1. Xor(a, b) = {} <=> a = b
    BY DEF Xor
  <2>2. Number(a) = Number(b) <=> a = b
    BY NumberOneToOne
  <2>3. Number(r) = 0 <=> r = {}
    BY ZeroNumber
  <2> QED BY <2>1, <2>2, <2>3
<1>4. \A w, n : IF w = {} THEN Number(FlagsUpd(f, w, n)) = kept + 1
                ELSE Number(FlagsUpd(f, w, n)) \in {kept, kept + 2}
  BY FlagNumbers
<1>5. CASE i.op \in M!FlagOps
  <2>1. \E n : Flags(i, f, a, b, r) = FlagsUpd(f, IF i.op = "CMP" THEN Xor(a, b) ELSE r, n)
    <3>1. CASE i.op = "CMP"
      BY <3>1 DEF Flags
    <3>2. CASE i.op \in {"XTIME", "MUL8"}
      <4>1. Flags(i, f, a, b, r) = FlagsUpd(f, r, ByteBits) /\ i.op # "CMP"
        BY <3>2 DEF Flags
      <4> QED BY <4>1
    <3>3. CASE i.op = "MIX32"
      <4>1. Flags(i, f, a, b, r) = FlagsUpd(f, r, LongBits) /\ i.op # "CMP"
        BY <3>3 DEF Flags
      <4> QED BY <4>1
    <3>4. CASE i.op \in {"XOR", "XOR64", "AND", "OR", "NOT", "SHL", "SHR", "ROL", "ROR", "ADD",
                          "SUB", "MIX64", "FOLD", "FOLD64", "ACC"}
      <4>1. Flags(i, f, a, b, r) = FlagsUpd(f, r, FullBits) /\ i.op # "CMP"
        BY <3>4 DEF Flags
      <4> QED BY <4>1
    <3> QED BY <1>5, <3>1, <3>2, <3>3, <3>4 DEF M!FlagOps, M!BitOps
  <2> HIDE DEF f, kept
  <2>2. IF clear THEN new = kept + 1 ELSE new \in {kept, kept + 2}
    BY <1>4, <2>1
  <2> HIDE DEF zero, clear, new
  <2>3. new \in (IF zero THEN {kept + 1} ELSE {kept, kept + 2})
    BY <1>3, <2>2
  <2> QED BY <1>2, <1>5, <2>3 DEF new, f
<1>6. CASE i.op \notin M!FlagOps
  <2>1. Flags(i, f, a, b, r) = f
    BY <1>6 DEF Flags, M!FlagOps, M!BitOps
  <2> QED BY <1>2, <1>6, <2>1
<1> QED BY <1>5, <1>6

-----------------------------------------------------------------------------
(* What the refinement rests on besides the two invariants above.          *)
ExactInv ==
  /\ regs \in [Regs -> FullWord]
  /\ frame \in Seq(InstrType) /\ Plain(frame) \in Programs
  /\ stack \in Seq({stack[k] : k \in 1 .. Len(stack)})
  /\ returned = <<>> => error = "OK"

RefInv == ExactInv /\ TraceInv /\ Driven

(* An instruction as the abstract machine sees it.                         *)
PlainOf(i) == [op |-> IF i.op \in Opcodes THEN i.op ELSE "bad", dst |-> i.dst, src0 |-> i.src0,
               src1 |-> i.src1, writeback |-> i.writeback]

LEMMA FetchMaps ==
  ASSUME ExactInv
  PROVE  /\ M!PC = Number(regs["PC"]) /\ Len(Plain(frame)) = Len(frame)
         /\ M!PC < Len(Plain(frame)) <=> InFrame
         /\ InFrame => Fetched \in InstrType /\ M!Fetched = PlainOf(Fetched)
<1>1. M!PC = Number(regs["PC"]) /\ Number(regs["PC"]) \in Nat
  BY NumbersNow, NumberType, SameNames DEF M!PC, NumbersOf
<1>2. frame \in Seq(InstrType) /\ Len(frame) \in Nat /\ DOMAIN frame = 1 .. Len(frame)
  BY DEF ExactInv
<1>3. Plain(frame) = [i \in 1 .. Len(frame) |-> PlainOf(frame[i])]
  BY <1>2 DEF Plain, PlainOf
<1>4. Len(Plain(frame)) = Len(frame)
  <2>1. Plain(frame) \in Seq({PlainOf(frame[i]) : i \in 1 .. Len(frame)})
    BY <1>2, <1>3, SeqDef
  <2>2. DOMAIN Plain(frame) = 1 .. Len(frame)
    BY <1>3
  <2> QED BY <1>2, <2>1, <2>2, LenProperties
<1>5. ASSUME InFrame PROVE Fetched \in InstrType /\ M!Fetched = PlainOf(Fetched)
  <2> DEFINE k == Number(regs["PC"]) + 1
  <2>1. k \in 1 .. Len(frame)
    BY <1>1, <1>2, <1>5, SMT DEF InFrame
  <2>2. Fetched = frame[k] /\ M!Fetched = Plain(frame)[k]
    BY <1>1 DEF Fetched, M!Fetched
  <2> HIDE DEF k
  <2> QED BY <1>2, <1>3, <2>1, <2>2
<1> QED BY <1>1, <1>4, <1>5 DEF InFrame

LEMMA DecodeMaps ==
  ASSUME NEW i \in InstrType
  PROVE  M!Decodes(PlainOf(i)) <=> i.op \in Opcodes /\ Illegal(i) = {}
<1>1. i.dst \in Operand /\ i.src0 \in Operand /\ i.src1 \in Operand
  BY DEF InstrType
<1>2. Illegal(i) = {} <=> i.dst # "bad" /\ i.src0 # "bad" /\ i.src1 # "bad"
  BY <1>1, SameNames DEF Illegal, Operand
<1>3. PlainOf(i).op \in Opcodes <=> i.op \in Opcodes
  BY SameNames DEF PlainOf
<1>4. PlainOf(i).dst = i.dst /\ PlainOf(i).src0 = i.src0 /\ PlainOf(i).src1 = i.src1
  BY DEF PlainOf
<1> QED BY <1>2, <1>3, <1>4, SameNames DEF M!Decodes

(* What is left alone stays as the abstract machine sees it.               *)
LEMMA FrameMaps ==
  /\ UNCHANGED setup => UNCHANGED <<Plain(frame), piped>>
  /\ UNCHANGED core => UNCHANGED M!core
  /\ UNCHANGED tape => UNCHANGED Places
  /\ UNCHANGED <<regs, depth, stack, output>> => UNCHANGED <<Numbers, depth, SavedDepths, DOMAIN output>>
<1>1. UNCHANGED setup => UNCHANGED <<Plain(frame), piped>>
  BY DEF setup
<1>2. UNCHANGED core => UNCHANGED M!core
  BY DEF core, M!core, Numbers, SavedDepths
<1>3. UNCHANGED tape => UNCHANGED Places
  BY DEF tape, Places
<1>4. UNCHANGED <<regs, depth, stack, output>> => UNCHANGED <<Numbers, depth, SavedDepths, DOMAIN output>>
  BY DEF Numbers, SavedDepths
<1> QED BY <1>1, <1>2, <1>3, <1>4

LEMMA ControlMaps ==
  /\ Stepping <=> M!Stepping
  /\ Fine => M!Fine
  /\ Halt => M!Halt
  /\ \A e : running /\ Fail(e) /\ e # "OK" => M!Fail(e)
<1>1. Stepping <=> M!Stepping
  BY DEF Stepping, M!Stepping
<1>2. Fine => M!Fine
  BY DEF Fine, M!Fine, Outcome, Started
<1>3. Halt => M!Halt
  BY DEF Halt, M!Halt, Outcome, Started
<1>4. ASSUME NEW e, running, Fail(e), e # "OK" PROVE M!Fail(e)
  <2>1. returned' # <<>> /\ error' = e
    BY <1>4 DEF Fail
  <2>2. Outcome' = "zero" /\ Started' = 1 /\ Started = 1
    BY <1>4, <2>1 DEF Outcome, Started
  <2> QED BY <1>4, <2>2 DEF Fail, M!Fail
<1> QED BY <1>1, <1>2, <1>3, <1>4

LEMMA RecordMaps ==
  ASSUME TraceInv, InFrame, Record, M!PC = Number(regs["PC"])
  PROVE  M!Record
<1> DEFINE new == <<Number(regs["PC"]), epoch>>
           n == recorded + 1
           View(tr, m) == [k \in 1 .. m |-> <<Number(tr[k].pc), tr[k].epoch>>]
<1>1. recorded \in Nat /\ recorded \in 0 .. TraceSize /\ TraceSize \in Nat
  BY ExactSizes, SMT DEF TraceInv, ExactSizes
<1>2. Places = View(trace, recorded) /\ Places' = View(trace', recorded')
  BY DEF Places
<1>3. Places \in Seq({Places[k] : k \in 1 .. recorded}) /\ Len(Places) = recorded
  <2>1. DOMAIN Places = 1 .. recorded /\ Places \in [1 .. recorded -> {Places[k] : k \in 1 .. recorded}]
    BY DEF Places
  <2>2. Places \in Seq({Places[k] : k \in 1 .. recorded})
    BY <1>1, <2>1, SeqDef
  <2> QED BY <1>1, <2>1, <2>2, LenProperties
<1>4. CASE piped /\ recorded < TraceSize
  <2>1. trace' = [trace EXCEPT ![n] = Entry] /\ recorded' = n
    BY <1>4 DEF Record
  <2>2. n \in 1 .. TraceSize /\ 1 .. n = 1 .. recorded \cup {n} /\ n \notin 1 .. recorded
    BY <1>1, <1>4, SMT
  <2>3. trace'[n] = Entry /\ \A k \in 1 .. recorded : trace'[k] = trace[k]
    BY <2>1, <2>2 DEF TraceInv
  <2>4. Entry.pc = regs["PC"] /\ Entry.epoch = epoch
    BY DEF Entry
  <2>5. View(trace', n) = Append(Places, new)
    <3> DEFINE S == {Places[k] : k \in 1 .. recorded} \cup {new}
               app == Append(Places, new)
    <3>1. Places \in Seq(S)
      <4>1. DOMAIN Places = 1 .. recorded /\ Places \in [1 .. recorded -> S]
        BY DEF Places
      <4> QED BY <1>1, <4>1, SeqDef
    <3>2. /\ app \in Seq(S) /\ Len(app) = n /\ app[n] = new
          /\ \A k \in 1 .. recorded : app[k] = Places[k]
      BY <1>3, <3>1, AppendProperties
    <3>3. app = [k \in 1 .. n |-> app[k]]
      <4>1. DOMAIN app = 1 .. n
        BY <3>2, LenProperties
      <4>2. app \in [1 .. n -> S]
        BY <3>2, LenProperties
      <4> HIDE DEF app, S
      <4> QED BY <4>2
    <3>4. \A k \in 1 .. n : app[k] = View(trace', n)[k]
      <4> HIDE DEF app
      <4>1. View(trace', n)[n] = new
        BY <2>2, <2>3, <2>4
      <4>2. ASSUME NEW k \in 1 .. recorded PROVE app[k] = View(trace', n)[k]
        <5>1. k \in 1 .. n
          BY <2>2
        <5>2. app[k] = <<Number(trace[k].pc), trace[k].epoch>>
          BY <1>2, <3>2
        <5> QED BY <2>3, <5>1, <5>2
      <4> HIDE DEF View, new
      <4> QED BY <2>2, <3>2, <4>1, <4>2
    <3> HIDE DEF app
    <3>5. View(trace', n) = [k \in 1 .. n |-> View(trace', n)[k]]
      OBVIOUS
    <3> HIDE DEF View
    <3>6. View(trace', n) = app
      BY <3>3, <3>4, <3>5
    <3> QED BY <3>6 DEF app
  <2> QED BY <1>2, <1>3, <1>4, <2>1, <2>5, Zenon DEF M!Record
<1>5. CASE ~(piped /\ recorded < TraceSize)
  <2>1. trace' = trace /\ recorded' = recorded
    BY <1>5 DEF Record, tape
  <2>2. Places' = Places
    BY <2>1 DEF Places
  <2> QED BY <1>3, <1>5, <2>2 DEF M!Record
<1> QED BY <1>4, <1>5

LEMMA ExecutingMaps ==
  ASSUME ExactInv, TraceInv, NEW ops \in SUBSET Opcodes, Executing(ops)
  PROVE  /\ M!Executing(ops) /\ Fetched \in InstrType /\ M!Fetched = PlainOf(Fetched)
         /\ M!Fetched.op = Fetched.op /\ Fetched.op \in ops /\ running
<1>1. /\ Stepping /\ InFrame /\ Fetched.op \in ops /\ Illegal(Fetched) = {} /\ Record
      /\ UNCHANGED setup
  BY DEF Executing
<1>2. /\ Fetched \in InstrType /\ M!Fetched = PlainOf(Fetched) /\ M!PC < Len(Plain(frame))
      /\ M!PC = Number(regs["PC"])
  BY <1>1, FetchMaps
<1>3. M!Decodes(M!Fetched)
  BY <1>1, <1>2, DecodeMaps
<1>4. M!Record
  BY <1>1, <1>2, RecordMaps
<1>5. M!Fetched.op = Fetched.op
  BY <1>1, <1>2 DEF PlainOf
<1>6. M!Stepping /\ running
  BY <1>1, ControlMaps DEF Stepping
<1>7. UNCHANGED <<Plain(frame), piped>>
  BY <1>1, FrameMaps
<1> QED BY <1>1, <1>2, <1>3, <1>4, <1>5, <1>6, <1>7 DEF M!Executing

(* Each action is the abstract one, and keeps the registers words.         *)

LEMMA StopsMap ==
  ASSUME RefInv
  PROVE  /\ RunOffEnd => M!RunOffEnd
         /\ Reject => M!Reject
         /\ StopOp => M!StopOp
         /\ TrapOp => M!TrapOp
         /\ RecurseBottom => M!RecurseBottom
         /\ RecurseTooDeep => M!RecurseTooDeep
<1> USE DEF RefInv
<1>1. Numbers["DEPTH"] = D /\ D \in Nat
  BY NumbersNow, NumberType, SameNames DEF NumbersOf, D
<1>2. ASSUME RunOffEnd PROVE M!RunOffEnd
  <2>1. Stepping /\ ~InFrame /\ Halt /\ UNCHANGED <<setup, core, tape>>
    BY <1>2 DEF RunOffEnd
  <2>2. M!PC \in Nat /\ Len(Plain(frame)) \in Nat
    BY FetchMaps, NumberType DEF ExactInv
  <2>3. M!PC >= Len(Plain(frame))
    BY <2>1, <2>2, FetchMaps, SMT
  <2>4. UNCHANGED <<Plain(frame), piped, M!core, Places>>
    BY <2>1, FrameMaps
  <2> QED BY <2>1, <2>3, <2>4, ControlMaps DEF M!RunOffEnd
<1>3. ASSUME Reject PROVE M!Reject
  <2> DEFINE e == IF Illegal(Fetched) # {} THEN "ILLEGAL_REG" ELSE "ILLEGAL_OPCODE"
  <2>1. /\ Stepping /\ InFrame /\ (Fetched.op \notin Opcodes \/ Illegal(Fetched) # {})
        /\ Fail(e) /\ UNCHANGED <<setup, core, tape>>
    BY <1>3 DEF Reject
  <2>2. /\ Fetched \in InstrType /\ M!Fetched = PlainOf(Fetched) /\ M!PC < Len(Plain(frame))
    BY <2>1, FetchMaps
  <2>3. ~M!Decodes(M!Fetched)
    BY <2>1, <2>2, DecodeMaps
  <2>4. {M!Fetched.dst, M!Fetched.src0, M!Fetched.src1} \cap {"bad"} # {} <=> Illegal(Fetched) # {}
    <3>1. Fetched.dst \in Operand /\ Fetched.src0 \in Operand /\ Fetched.src1 \in Operand
      BY <2>2 DEF InstrType
    <3>2. Illegal(Fetched) # {} <=> Fetched.dst = "bad" \/ Fetched.src0 = "bad" \/ Fetched.src1 = "bad"
      BY <3>1, SameNames DEF Illegal, Operand
    <3>3. M!Fetched.dst = Fetched.dst /\ M!Fetched.src0 = Fetched.src0 /\ M!Fetched.src1 = Fetched.src1
      BY <2>2 DEF PlainOf
    <3> QED BY <3>2, <3>3
  <2>5. UNCHANGED <<Plain(frame), piped, M!core, Places>>
    BY <2>1, FrameMaps
  <2>6. M!Fail(e) /\ M!Stepping
    <3>1. e # "OK" /\ running
      BY <2>1 DEF Stepping
    <3> HIDE DEF e
    <3> QED BY <2>1, <3>1, ControlMaps
  <2>7. M!Fail(IF {M!Fetched.dst, M!Fetched.src0, M!Fetched.src1} \cap {"bad"} # {}
                 THEN "ILLEGAL_REG" ELSE "ILLEGAL_OPCODE")
    BY <2>4, <2>6
  <2> QED BY <2>2, <2>3, <2>5, <2>6, <2>7 DEF M!Reject
<1>4. \A o \in {"HALT", "TRAP", "RECURSE"} : {o} \in SUBSET Opcodes
  BY DEF Opcodes
<1>5. ASSUME StopOp PROVE M!StopOp
  <2>1. Executing({"HALT"}) /\ Halt /\ UNCHANGED core
    BY <1>5 DEF StopOp
  <2>2. M!Executing({"HALT"})
    BY <1>4, <2>1, ExecutingMaps
  <2> QED BY <2>1, <2>2, ControlMaps, FrameMaps DEF M!StopOp
<1>6. ASSUME TrapOp PROVE M!TrapOp
  <2>1. Executing({"TRAP"}) /\ Fail("ILLEGAL_OPCODE") /\ UNCHANGED core
    BY <1>6 DEF TrapOp
  <2>2. M!Executing({"TRAP"}) /\ running
    BY <1>4, <2>1, ExecutingMaps
  <2>3. M!Fail("ILLEGAL_OPCODE")
    BY <2>1, <2>2, ControlMaps
  <2> QED BY <2>1, <2>2, <2>3, FrameMaps DEF M!TrapOp
<1>7. ASSUME RecurseBottom PROVE M!RecurseBottom
  <2>1. Executing({"RECURSE"}) /\ D = 0 /\ epoch' = epoch + 1 /\ Fine
        /\ UNCHANGED <<regs, depth, stack, output>>
    BY <1>7 DEF RecurseBottom, Advance
  <2>2. M!Executing({"RECURSE"})
    BY <1>4, <2>1, ExecutingMaps
  <2>3. UNCHANGED <<Numbers, depth, SavedDepths, DOMAIN output>>
    BY <2>1, FrameMaps
  <2> QED BY <1>1, <2>1, <2>2, <2>3, ControlMaps DEF M!RecurseBottom, M!D
<1>8. ASSUME RecurseTooDeep PROVE M!RecurseTooDeep
  <2>1. Executing({"RECURSE"}) /\ D > MaxDepth /\ Fail("DEPTH_EXCEEDED") /\ UNCHANGED core
    BY <1>8 DEF RecurseTooDeep
  <2>2. M!Executing({"RECURSE"}) /\ running
    BY <1>4, <2>1, ExecutingMaps
  <2>3. M!Fail("DEPTH_EXCEEDED")
    BY <2>1, <2>2, ControlMaps
  <2>4. D # 0
    BY <1>1, <2>1, ExactSizes, SMT DEF ExactSizes
  <2>5. M!TooDeep /\ M!D # 0
    BY <1>1, <2>1, <2>4 DEF M!TooDeep, M!D
  <2> QED BY <2>1, <2>2, <2>3, <2>5, FrameMaps DEF M!RecurseTooDeep
<1> QED BY <1>2, <1>3, <1>5, <1>6, <1>7, <1>8

LEMMA XchgMaps ==
  ASSUME RefInv, Xchg PROVE M!Xchg /\ regs' \in [Regs -> FullWord]
<1> USE DEF RefInv
<1> DEFINE i == Fetched
           inner == Written(regs, i.dst, Read(i.src0))
<1>1. /\ Executing({"XCHG"}) /\ epoch' = epoch + 1 /\ Fine /\ UNCHANGED <<q, depth, stack, output>>
      /\ regs' = IF i.src0 # "none" /\ i.dst # "none" THEN Written(inner, i.src0, Read(i.dst)) ELSE regs
  BY DEF Xchg
<1>2. {"XCHG"} \in SUBSET Opcodes
  BY DEF Opcodes
<1>3. M!Executing({"XCHG"}) /\ M!Fetched.dst = i.dst /\ M!Fetched.src0 = i.src0
  <2>1. M!Executing({"XCHG"}) /\ M!Fetched = PlainOf(i)
    BY <1>1, <1>2, ExecutingMaps
  <2> QED BY <2>1 DEF PlainOf
<1>4. regs \in [Regs -> FullWord] /\ Read(i.src0) \in FullWord /\ Read(i.dst) \in FullWord
  BY ReadWordType DEF ExactInv
<1> HIDE DEF i
<1>5. inner \in [Regs -> FullWord]
      /\ NumbersOf(inner) = M!Written(Numbers, i.dst, M!Read(i.src0))
  BY <1>4, NumbersWritten, NumbersNow, NumbersRead
<1> HIDE DEF inner
<1>6. LET new == Written(inner, i.src0, Read(i.dst))
      IN /\ new \in [Regs -> FullWord]
         /\ NumbersOf(new) = M!Written(NumbersOf(inner), i.src0, M!Read(i.dst))
  BY <1>4, <1>5, NumbersWritten, NumbersRead
<1>7. regs' \in [Regs -> FullWord]
      /\ Numbers' = IF i.src0 # "none" /\ i.dst # "none"
                      THEN M!Written(M!Written(Numbers, i.dst, M!Read(i.src0)), i.src0, M!Read(i.dst))
                      ELSE Numbers
  BY <1>1, <1>4, <1>5, <1>6, NumbersNow
<1>8. UNCHANGED <<depth, SavedDepths, DOMAIN output>>
  BY <1>1 DEF SavedDepths
<1> QED BY <1>1, <1>3, <1>7, <1>8, ControlMaps DEF M!Xchg

LEMMA NextSlotNumber ==
  ASSUME NEW w, Number(Lo32(w)) < OutputSize
  PROVE  LET op == Number(Lo32(w))
         IN /\ op \in Nat /\ op = Number(w) % 2^LongBits
            /\ Number(Bits(op + 1)) = op + 1 /\ Bits(op + 1) \in FullWord
<1> DEFINE op == Number(Lo32(w))  m == 2^LongBits
<1>1. op \in Nat /\ op = Number(w) % m
  BY LowNumber, NumberType
<1>2. m \in Nat \ {0} /\ Number(w) \in Nat /\ LongBits \in Nat /\ FullBits \in Nat /\ LongBits + 1 \in Nat
      /\ LongBits + 1 <= FullBits
  BY PowerPositive, NumberType, Widths, SMT
<1>3. 2 * m <= 2^FullBits
  <2>1. 2^(LongBits + 1) <= 2^FullBits
    BY <1>2, PowerGrows
  <2> QED BY <1>2, <2>1, PowerStep
<1>4. 2^FullBits \in Nat /\ 2^16 \in Nat /\ OutputSize \in Nat /\ OutputSize < 2^16
  BY <1>2, PowerNat, ExactSizes, SMT DEF ExactSizes
<1> HIDE DEF m
<1>5. op < m
  <2>1. Number(w) % m \in 0 .. m - 1
    BY <1>2, SMT
  <2> QED BY <1>1, <1>2, <2>1, SMT
<1> HIDE DEF op
<1> DEFINE big == 2^FullBits  wide == 2^16  k == op + 1
<1>6. op < OutputSize
  BY DEF op
<1>7. k \in Nat /\ k < wide /\ k < big
  <2> HIDE DEF big, wide
  <2>1. 2 * m <= big /\ big \in Nat /\ wide \in Nat /\ OutputSize < wide
    BY <1>3, <1>4 DEF big, wide
  <2> QED BY <1>1, <1>2, <1>4, <1>5, <1>6, <2>1, SMT
<1> HIDE DEF k
<1>8. Number(Bits(k)) = k /\ Bits(k) \in FullWord
  BY <1>7, NumberOfBits
<1> QED BY <1>1, <1>8 DEF op, m, k

LEMMA EmitMaps ==
  ASSUME RefInv, Emit PROVE M!Emit /\ regs' \in [Regs -> FullWord]
<1> USE DEF RefInv
<1> DEFINE op == Number(Lo32(regs["OUT_PTR"]))
<1>1. /\ Executing({"EMIT"}) /\ Fine /\ UNCHANGED <<q, depth, epoch, stack>>
      /\ IF op < OutputSize
           THEN /\ DOMAIN output' = DOMAIN output \cup {op}
                /\ regs' = [regs EXCEPT !["OUT_PTR"] = Bits(op + 1)]
           ELSE UNCHANGED <<output, regs>>
  BY DEF Emit
<1>2. {"EMIT"} \in SUBSET Opcodes
  BY DEF Opcodes
<1>3. M!Executing({"EMIT"})
  BY <1>1, <1>2, ExecutingMaps
<1>4. regs \in [Regs -> FullWord] /\ "OUT_PTR" \in Regs
  BY SameNames DEF ExactInv
<1>5. Numbers["OUT_PTR"] % 2^LongBits = op
  BY <1>4, NumbersNow, LowNumber DEF NumbersOf
<1>6. UNCHANGED <<depth, epoch, SavedDepths>>
  BY <1>1 DEF SavedDepths
<1> HIDE DEF op
<1>7. CASE op < OutputSize
  <2>1. Number(Bits(op + 1)) = op + 1 /\ Bits(op + 1) \in FullWord
    BY <1>7, NextSlotNumber DEF op
  <2>2. regs' \in [Regs -> FullWord] /\ Numbers' = [Numbers EXCEPT !["OUT_PTR"] = op + 1]
    <3> DEFINE v == Bits(op + 1)
    <3>1. v \in FullWord /\ Number(v) = op + 1
      BY <2>1
    <3>2. regs' = [regs EXCEPT !["OUT_PTR"] = v]
      BY <1>1, <1>7
    <3> HIDE DEF v
    <3>3. /\ [regs EXCEPT !["OUT_PTR"] = v] \in [Regs -> FullWord]
          /\ NumbersOf([regs EXCEPT !["OUT_PTR"] = v]) = [NumbersOf(regs) EXCEPT !["OUT_PTR"] = Number(v)]
      BY <1>4, <3>1, NumbersSet
    <3> QED BY <3>1, <3>2, <3>3, NumbersNow, Zenon
  <2> QED BY <1>1, <1>3, <1>5, <1>6, <1>7, <2>2, ControlMaps DEF M!Emit, M!HasSlot, M!NextSlot
<1>8. CASE ~(op < OutputSize)
  <2>1. Numbers' = Numbers /\ DOMAIN output' = DOMAIN output /\ regs' = regs
    BY <1>1, <1>8, NumbersNow
  <2> QED BY <1>1, <1>3, <1>4, <1>5, <1>6, <1>8, <2>1, ControlMaps DEF M!Emit, M!HasSlot, M!NextSlot
<1> QED BY <1>7, <1>8

(* The saved depths, pushed.                                               *)
LEMMA PushedDepths ==
  ASSUME ExactInv, stack' = Pushed(stack, q, depth)
  PROVE  /\ Len(SavedDepths) = Len(stack) /\ SavedDepths' = Append(SavedDepths, depth)
         /\ stack' \in Seq({stack'[k] : k \in 1 .. Len(stack')})
<1> DEFINE e == [words |-> q, depth |-> depth]
           S == {stack[k] : k \in 1 .. Len(stack)} \cup {e}
           T == {stack[k].depth : k \in 1 .. Len(stack)} \cup {depth}
           n == Len(stack)
           both == Append(SavedDepths, depth)
<1>1. stack \in Seq(S) /\ n \in Nat /\ DOMAIN stack = 1 .. n
  <2>1. stack \in Seq({stack[k] : k \in 1 .. Len(stack)})
    BY DEF ExactInv
  <2>2. n \in Nat /\ stack \in [1 .. n -> S] /\ DOMAIN stack = 1 .. n
    BY <2>1, LenProperties
  <2> QED BY <2>2, SeqDef
<1>2. stack' = Append(stack, e)
  BY DEF Pushed
<1>3. /\ stack' \in Seq(S) /\ Len(stack') = n + 1 /\ stack'[n + 1] = e
      /\ \A k \in 1 .. n : stack'[k] = stack[k]
  BY <1>1, <1>2, AppendProperties
<1>4. DOMAIN stack' = 1 .. n + 1 /\ stack' \in [1 .. n + 1 -> {stack'[k] : k \in 1 .. n + 1}]
  BY <1>3, LenProperties
<1>5. SavedDepths = [k \in 1 .. n |-> stack[k].depth]
  BY <1>1 DEF SavedDepths
<1>6. SavedDepths' = [k \in 1 .. n + 1 |-> stack'[k].depth]
  BY <1>4 DEF SavedDepths
<1>7. SavedDepths \in Seq(T) /\ Len(SavedDepths) = n
  <2>1. SavedDepths \in [1 .. n -> T] /\ DOMAIN SavedDepths = 1 .. n
    BY <1>5
  <2>2. SavedDepths \in Seq(T)
    BY <1>1, <2>1, SeqDef
  <2> QED BY <1>1, <2>1, <2>2, LenProperties
<1>8. /\ both \in Seq(T) /\ Len(both) = n + 1 /\ both[n + 1] = depth
      /\ \A k \in 1 .. n : both[k] = SavedDepths[k]
  BY <1>7, AppendProperties
<1>9. both \in [1 .. n + 1 -> T]
  BY <1>8, LenProperties
<1> HIDE DEF both, S, T, n, e
<1>10. \A k \in 1 .. n + 1 : k \in 1 .. n \/ k = n + 1
  BY <1>1, SMT
<1>11. \A k \in 1 .. n + 1 : both[k] = stack'[k].depth
  <2>1. e.depth = depth
    BY DEF e
  <2>2. \A k \in 1 .. n : both[k] = stack[k].depth
    BY <1>5, <1>8
  <2> QED BY <1>3, <1>8, <1>10, <2>1, <2>2
<1>12. SavedDepths' = both
  BY <1>6, <1>9, <1>11
<1>13. stack' \in Seq({stack'[k] : k \in 1 .. Len(stack')})
  <2>1. n + 1 \in Nat
    BY <1>1, SMT
  <2> QED BY <1>3, <1>4, <2>1, SeqDef
<1> QED BY <1>7, <1>12, <1>13 DEF both, n

LEMMA PushMaps ==
  ASSUME RefInv, RecursePush
  PROVE  /\ M!RecursePush /\ regs' \in [Regs -> FullWord]
         /\ stack' \in Seq({stack'[k] : k \in 1 .. Len(stack')})
<1> USE DEF RefInv
<1>1. /\ Executing({"RECURSE"}) /\ D \in 1 .. MaxDepth
      /\ \/ /\ Len(stack) >= StackSize /\ Fail("STACK_OVERFLOW") /\ UNCHANGED core
         \/ /\ ~(Len(stack) >= StackSize) /\ stack' = Pushed(stack, q, depth)
            /\ regs' = [regs EXCEPT !["DEPTH"] = Bits(D - 1)] /\ depth' = D - 1
            /\ epoch' = epoch + 1 /\ Fine /\ UNCHANGED output
  BY DEF RecursePush, Advance
<1>2. {"RECURSE"} \in SUBSET Opcodes
  BY DEF Opcodes
<1>3. M!Executing({"RECURSE"}) /\ running
  BY <1>1, <1>2, ExecutingMaps
<1>4. regs \in [Regs -> FullWord] /\ "DEPTH" \in Regs /\ M!D = D /\ Numbers["DEPTH"] = D
  BY NumbersNow, SameNames DEF ExactInv, M!D, D, NumbersOf
<1>5. D # 0 /\ ~M!TooDeep /\ D - 1 \in Nat /\ D - 1 < 2^16 /\ D - 1 < 2^FullBits
  <2> DEFINE big == 2^FullBits  wide == 2^16
  <2>1. MaxDepth \in Nat /\ MaxDepth < wide /\ MaxDepth < big /\ big \in Nat /\ wide \in Nat
    BY ExactSizes, PowerNat, Widths, SMT DEF ExactSizes
  <2> HIDE DEF big, wide
  <2>2. D # 0 /\ ~(D > MaxDepth) /\ D - 1 \in Nat /\ D - 1 < wide /\ D - 1 < big
    BY <1>1, <2>1, SMT
  <2> QED BY <1>4, <2>2 DEF M!TooDeep, big, wide
<1>6. Len(SavedDepths) = Len(stack)
  <2>1. stack \in Seq({stack[k] : k \in 1 .. Len(stack)})
    BY DEF ExactInv
  <2>2. Len(stack) \in Nat /\ DOMAIN stack = 1 .. Len(stack)
    BY <2>1, LenProperties
  <2>3. SavedDepths \in [1 .. Len(stack) -> {stack[k].depth : k \in 1 .. Len(stack)}]
    BY <2>2 DEF SavedDepths
  <2>4. SavedDepths \in Seq({stack[k].depth : k \in 1 .. Len(stack)}) /\ DOMAIN SavedDepths = 1 .. Len(stack)
    BY <2>2, <2>3, SeqDef
  <2> QED BY <2>2, <2>4, LenProperties
<1>7. CASE Len(stack) >= StackSize /\ Fail("STACK_OVERFLOW") /\ UNCHANGED core
  <2>1. M!Fail("STACK_OVERFLOW") /\ UNCHANGED M!core
    BY <1>3, <1>7, ControlMaps, FrameMaps
  <2>2. regs' = regs /\ stack' = stack
    BY <1>7 DEF core
  <2>3. M!RecursePush
    BY <1>3, <1>4, <1>5, <1>6, <1>7, <2>1 DEF M!RecursePush
  <2> QED BY <1>4, <2>2, <2>3 DEF ExactInv
<1>8. CASE /\ ~(Len(stack) >= StackSize) /\ stack' = Pushed(stack, q, depth)
           /\ regs' = [regs EXCEPT !["DEPTH"] = Bits(D - 1)] /\ depth' = D - 1
           /\ epoch' = epoch + 1 /\ Fine /\ UNCHANGED output
  <2>1. Number(Bits(D - 1)) = D - 1 /\ Bits(D - 1) \in FullWord
    BY <1>5, NumberOfBits
  <2>2. regs' \in [Regs -> FullWord] /\ Numbers' = [Numbers EXCEPT !["DEPTH"] = D - 1]
    <3> DEFINE v == Bits(D - 1)
    <3>1. v \in FullWord /\ Number(v) = D - 1
      BY <2>1
    <3>2. regs' = [regs EXCEPT !["DEPTH"] = v]
      BY <1>8
    <3> HIDE DEF v
    <3>3. /\ [regs EXCEPT !["DEPTH"] = v] \in [Regs -> FullWord]
          /\ NumbersOf([regs EXCEPT !["DEPTH"] = v]) = [NumbersOf(regs) EXCEPT !["DEPTH"] = Number(v)]
      BY <1>4, <3>1, NumbersSet
    <3> QED BY <3>1, <3>2, <3>3, NumbersNow, Zenon
  <2>3. SavedDepths' = Append(SavedDepths, depth) /\ stack' \in Seq({stack'[k] : k \in 1 .. Len(stack')})
    BY <1>8, PushedDepths
  <2>4. M!Fine /\ DOMAIN output' = DOMAIN output
    BY <1>8, ControlMaps
  <2>5. M!RecursePush
    BY <1>3, <1>4, <1>5, <1>6, <1>8, <2>2, <2>3, <2>4 DEF M!RecursePush
  <2> QED BY <2>2, <2>3, <2>5
<1> QED BY <1>1, <1>7, <1>8

LEMMA ComputeMaps ==
  ASSUME RefInv, Compute PROVE M!Compute /\ regs' \in [Regs -> FullWord]
<1> USE DEF RefInv
<1> DEFINE i == Fetched
           f == regs["FLAGS"]
           a == Read(i.src0)
           b == Read(i.src1)
           r == Result(i, f, a, b)
           g == Flags(i, f, a, b, r)
           ops == Opcodes \ {"HALT", "TRAP", "XCHG", "EMIT", "RECURSE"}
           flagged == [regs EXCEPT !["FLAGS"] = g]
           back == IF i.writeback THEN Written(flagged, i.dst, r) ELSE flagged
           x == Xor(back["ACC0"], r)
           A == Number(a)
           B == Number(b)
           R == Number(r)
           G == Number(g)
           Flagged == [Numbers EXCEPT !["FLAGS"] = G]
           Back == IF i.writeback THEN M!Written(Flagged, i.dst, R) ELSE Flagged
<1>1. /\ Executing(ops) /\ Fine /\ UNCHANGED <<depth, stack, output>> /\ epoch' = epoch + 1
      /\ regs' = IF i.op = "ACC" THEN [back EXCEPT !["ACC0"] = x] ELSE back
  BY DEF Compute, Advance
<1>2. ops \in SUBSET Opcodes /\ ops = M!BitOps \cup M!ExactOps
  BY DEF Opcodes, M!BitOps, M!ExactOps
<1>3. /\ M!Executing(ops) /\ i \in InstrType /\ M!Fetched = PlainOf(i) /\ M!Fetched.op = i.op /\ i.op \in ops
  BY <1>1, <1>2, ExecutingMaps
<1>4. /\ M!Fetched.src0 = i.src0 /\ M!Fetched.src1 = i.src1 /\ M!Fetched.dst = i.dst
      /\ M!Fetched.writeback = i.writeback /\ i.imm \in FullWord
  BY <1>3 DEF PlainOf, InstrType
<1>5. regs \in [Regs -> FullWord] /\ "FLAGS" \in Regs /\ "ACC0" \in Regs
  BY SameNames DEF ExactInv
<1>6. a \in FullWord /\ b \in FullWord /\ M!Read(i.src0) = A /\ M!Read(i.src1) = B
  BY <1>5, ReadWordType, NumbersRead
<1>7. i.op \in Opcodes /\ i.op \notin {"HALT", "TRAP", "XCHG", "EMIT", "RECURSE"}
  BY <1>3
<1>8. r \in FullWord /\ R \in M!Results(i.op, A, B)
  <2> HIDE DEF a, b, i
  <2>1. r \in FullWord
    BY <1>4, <1>6, ResultWord
  <2>2. R \in M!Results(i.op, A, B)
    BY <1>5, <1>6, <1>7, ResultMaps
  <2> QED BY <2>1, <2>2
<1>9. g \in FullWord /\ G \in M!FlagWords(i.op, A, B, R)
  <2> HIDE DEF a, b, i, r
  <2>1. g \in FullWord
    BY <1>5, FlagsWord
  <2>2. G \in M!FlagWords(i.op, A, B, R)
    BY <1>5, <1>6, <1>7, <1>8, FlagsMap
  <2> QED BY <2>1, <2>2
<1> HIDE DEF a, b, i, r, g, f, ops
<1>10. flagged \in [Regs -> FullWord] /\ NumbersOf(flagged) = Flagged
  <2>1. /\ [regs EXCEPT !["FLAGS"] = g] \in [Regs -> FullWord]
        /\ NumbersOf([regs EXCEPT !["FLAGS"] = g]) = [NumbersOf(regs) EXCEPT !["FLAGS"] = G]
    BY <1>5, <1>9, NumbersSet
  <2> QED BY <2>1, NumbersNow, Zenon
<1> HIDE DEF flagged, Flagged
<1>11. back \in [Regs -> FullWord] /\ NumbersOf(back) = Back
  <2>1. /\ Written(flagged, i.dst, r) \in [Regs -> FullWord]
        /\ NumbersOf(Written(flagged, i.dst, r)) = M!Written(NumbersOf(flagged), i.dst, R)
    BY <1>8, <1>10, NumbersWritten
  <2> QED BY <1>10, <2>1
<1> HIDE DEF back, Back
<1>12. ASSUME i.op = "ACC"
       PROVE  /\ regs' \in [Regs -> FullWord]
              /\ \E s \in M!Accumulated(Back["ACC0"], R) : Numbers' = [Back EXCEPT !["ACC0"] = s]
  <2>1. back["ACC0"] \in FullWord /\ Back["ACC0"] = Number(back["ACC0"])
    BY <1>5, <1>11 DEF NumbersOf
  <2>2. x \in FullWord /\ Number(x) \in M!Accumulated(Back["ACC0"], R)
    <3>1. x \in FullWord
      BY <1>8, <2>1, XorWord DEF FullWord
    <3>2. CASE Back["ACC0"] = 0
      <4>1. back["ACC0"] = {}
        BY <2>1, <3>2, ZeroNumber
      <4>2. x = r
        BY <4>1 DEF Xor
      <4> QED BY <3>1, <3>2, <4>2 DEF M!Accumulated
    <3>3. CASE Back["ACC0"] # 0
      BY <3>1, <3>3, MapsRange DEF M!Accumulated
    <3> QED BY <3>2, <3>3
  <2> HIDE DEF x
  <2>3. regs' \in [Regs -> FullWord] /\ Numbers' = [Back EXCEPT !["ACC0"] = Number(x)]
    <3>1. /\ [back EXCEPT !["ACC0"] = x] \in [Regs -> FullWord]
          /\ NumbersOf([back EXCEPT !["ACC0"] = x]) = [NumbersOf(back) EXCEPT !["ACC0"] = Number(x)]
      BY <1>5, <1>11, <2>2, NumbersSet
    <3> QED BY <1>1, <1>11, <1>12, <3>1, NumbersNow, Zenon
  <2>4. \E s \in M!Accumulated(Back["ACC0"], R) : Numbers' = [Back EXCEPT !["ACC0"] = s]
    BY <2>2, <2>3
  <2> QED BY <1>12, <2>3, <2>4
<1>13. ASSUME i.op # "ACC" PROVE Numbers' = Back
  BY <1>1, <1>11, <1>13, NumbersNow
<1>14. regs' \in [Regs -> FullWord]
  <2>1. CASE i.op = "ACC"
    BY <1>12, <2>1
  <2>2. CASE i.op # "ACC"
    BY <1>1, <1>11, <2>2
  <2> QED BY <2>1, <2>2
<1>15. IF i.op = "ACC" THEN \E s \in M!Accumulated(Back["ACC0"], R) : Numbers' = [Back EXCEPT !["ACC0"] = s]
       ELSE Numbers' = Back
  BY <1>12, <1>13
<1> DEFINE Outcomes(u, v, r1, f1) ==
             LET fl == [Numbers EXCEPT !["FLAGS"] = f1]
                 bk == IF M!Fetched.writeback THEN M!Written(fl, M!Fetched.dst, r1) ELSE fl
             IN IF M!Fetched.op = "ACC"
                  THEN \E s \in M!Accumulated(bk["ACC0"], r1) : Numbers' = [bk EXCEPT !["ACC0"] = s]
                  ELSE Numbers' = bk
<1>16. Outcomes(A, B, R, G)
  BY <1>3, <1>4, <1>15, Zenon DEF Back, Flagged
<1> HIDE DEF Outcomes, R, G
<1>17. LET u == M!Read(M!Fetched.src0)
           v == M!Read(M!Fetched.src1)
       IN \E r1 \in M!Results(M!Fetched.op, u, v) :
          \E f1 \in M!FlagWords(M!Fetched.op, u, v, r1) : Outcomes(u, v, r1, f1)
  BY <1>3, <1>4, <1>6, <1>8, <1>9, <1>16, Zenon
<1>18. UNCHANGED <<depth, SavedDepths, DOMAIN output>> /\ M!Fine /\ epoch' = epoch + 1
  BY <1>1, ControlMaps DEF SavedDepths
<1>19. M!Executing(M!BitOps \cup M!ExactOps)
  BY <1>2, <1>3
<1>20. M!Compute
  BY <1>17, <1>18, <1>19, Zenon DEF M!Compute, Outcomes
<1> QED BY <1>14, <1>20

-----------------------------------------------------------------------------
(* A machine just initialised is initial in the abstract.                  *)
LEMMA EmptyViews ==
  /\ Plain(<<>>) = <<>> /\ <<>> \in Programs /\ Built(<<>>) = <<>>
  /\ \A S : <<>> \in Seq(S)
<1>1. DOMAIN <<>> = {} /\ Len(<<>>) = 0
  OBVIOUS
<1>2. Plain(<<>>) = <<>>
  BY <1>1 DEF Plain
<1>3. <<>> \in Programs
  BY DEF Programs
<1>4. Built(<<>>) = <<>>
  <2>1. (IF Len(<<>>) < InstrSlots THEN Len(<<>>) ELSE InstrSlots) = 0
    BY <1>1, ExactSizes, SMT DEF ExactSizes
  <2>2. SubSeq(<<>>, 1, 0) = <<>>
    OBVIOUS
  <2> QED BY <2>1, <2>2 DEF Built
<1> QED BY <1>2, <1>3, <1>4

LEMMA BootView ==
  ASSUME NEW d \in 0 .. MaxDepth
  PROVE  /\ BootRegs(d) \in [Regs -> FullWord]
         /\ NumbersOf(BootRegs(d)) = [r \in Regs |-> IF r = "DEPTH" THEN d ELSE 0]
<1>1. d \in Nat /\ d < 2^16 /\ d < 2^FullBits
  <2> DEFINE big == 2^FullBits  wide == 2^16
  <2>1. MaxDepth \in Nat /\ MaxDepth < wide /\ MaxDepth < big /\ big \in Nat /\ wide \in Nat
    BY ExactSizes, PowerNat, Widths, SMT DEF ExactSizes
  <2> HIDE DEF big, wide
  <2>2. d \in Nat /\ d < wide /\ d < big
    BY <2>1, SMT
  <2> QED BY <2>2 DEF big, wide
<1>2. Number(Bits(d)) = d /\ Bits(d) \in FullWord
  BY <1>1, NumberOfBits
<1> QED BY <1>2, NumberOfZero, Wider DEF BootRegs, NumbersOf

LEMMA NoPlaces == ASSUME NEW tr PROVE [k \in 1 .. 0 |-> <<Number(tr[k].pc), tr[k].epoch>>] = <<>>
<1>1. 1 .. 0 = {} /\ DOMAIN <<>> = {}
  BY SMT
<1> QED BY <1>1

LEMMA BuiltType ==
  ASSUME NEW s \in Seq(InstrType) PROVE Built(s) \in Seq(InstrType)
<1> DEFINE n == IF Len(s) < InstrSlots THEN Len(s) ELSE InstrSlots
<1>1. Len(s) \in Nat /\ n \in 0 .. Len(s)
  BY ExactSizes, SMT DEF ExactSizes
<1> HIDE DEF n
<1>2. SubSeq(s, 1, n) \in Seq(InstrType)
  BY <1>1, SubSeqProperties, SMT
<1> QED BY <1>2 DEF Built, n

LEMMA MachineStarts == MachineInit => M!Init /\ ExactInv
<1> SUFFICES ASSUME MachineInit PROVE M!Init /\ ExactInv
  OBVIOUS
<1>1. DefaultDepth \in 0 .. MaxDepth
  BY ExactSizes DEF ExactSizes
<1>2. regs \in [Regs -> FullWord] /\ Numbers = [r \in Regs |-> IF r = "DEPTH" THEN DefaultDepth ELSE 0]
  BY <1>1, BootView, NumbersNow DEF MachineInit
<1>3. M!Boot(DefaultDepth, 0)
  BY <1>2, SameNames DEF M!Boot, MachineInit
<1>4. Plain(frame) \in Programs /\ frame \in Seq(InstrType) /\ piped \in BOOLEAN
  BY EmptyViews DEF MachineInit
<1>5. SavedDepths = <<>> /\ DOMAIN output = {} /\ Places = <<>>
  <2>1. DOMAIN <<>> = {}
    OBVIOUS
  <2>2. Places = <<>>
    BY NoPlaces DEF Places, MachineInit
  <2>3. SavedDepths = <<>>
    BY <2>1 DEF SavedDepths, MachineInit
  <2> QED BY <2>1, <2>2, <2>3 DEF MachineInit
<1>6. Outcome = "none" /\ Started = 0
  BY DEF MachineInit, Outcome, Started
<1>7. M!Init
  BY <1>3, <1>4, <1>5, <1>6 DEF M!Init, MachineInit
<1>8. ExactInv
  BY <1>2, <1>4, EmptyViews DEF ExactInv, MachineInit
<1> QED BY <1>7, <1>8

LEMMA BootMaps ==
  ASSUME NEW d \in Nat, NEW instrs \in Seq(InstrType), NEW inject, Boot(d, instrs, inject),
         Plain(Built(instrs)) \in Programs
  PROVE  M!Init' /\ ExactInv'
<1> DEFINE c == IF d > MaxDepth THEN MaxDepth ELSE d
<1>1. /\ regs' = BootRegs(c) /\ depth' = c /\ epoch' = 0 /\ recorded' = 0
      /\ stack' = <<>> /\ output' = <<>> /\ frame' = Built(instrs) /\ piped' = TRUE
      /\ halted' = FALSE /\ error' = "OK" /\ running' = FALSE /\ steps' = 0 /\ budget' = 0
      /\ returned' = <<>>
  BY DEF Boot, ClearState, ClearTrace
<1>2. c \in 0 .. MaxDepth /\ ~(c > MaxDepth)
  BY ExactSizes, SMT DEF ExactSizes
<1> HIDE DEF c
<1>3. regs' \in [Regs -> FullWord] /\ Numbers' = [r \in Regs |-> IF r = "DEPTH" THEN c ELSE 0]
  BY <1>1, <1>2, BootView, NumbersNow
<1>4. M!Boot(c, c)'
  BY <1>1, <1>3, SameNames DEF M!Boot
<1>5. \E e \in 0 .. MaxDepth : (LET k == IF e > MaxDepth THEN MaxDepth ELSE e IN M!Boot(k, k))'
  BY <1>2, <1>4
<1>6. Plain(frame)' \in Programs /\ frame' \in Seq(InstrType) /\ piped' \in BOOLEAN
  <2>1. Plain(frame') = Plain(Built(instrs))
    BY <1>1
  <2> QED BY <1>1, <2>1, BuiltType
<1>7. SavedDepths' = <<>> /\ DOMAIN output' = {} /\ Places' = <<>>
  <2>1. DOMAIN <<>> = {}
    OBVIOUS
  <2>2. Places' = <<>>
    BY <1>1, NoPlaces DEF Places
  <2>3. SavedDepths' = <<>>
    BY <1>1, <2>1 DEF SavedDepths
  <2> QED BY <1>1, <2>1, <2>2, <2>3
<1>8. Outcome' = "none" /\ Started' = 0
  BY <1>1 DEF Outcome, Started
<1>9. M!Init'
  BY <1>1, <1>5, <1>6, <1>7, <1>8 DEF M!Init
<1>10. ExactInv'
  BY <1>1, <1>3, <1>6, EmptyViews DEF ExactInv
<1> QED BY <1>9, <1>10

LEMMA SegmentIsRequest ==
  ASSUME Driven, Inside("run")
  PROVE  /\ Segment.depth \in Nat /\ Segment.max \in Limits /\ Segment.frame \in Seq(InstrType)
         /\ Plain(Built(Segment.frame)) \in Programs
<1>1. script \in Scripts /\ at \in 1 .. Len(script) /\ script[at].do = "run"
  BY SMT DEF Driven, Inside
<1>2. Segment \in Requests
  BY <1>1 DEF Segment, Requests
<1>3. Segment.depth \in Nat /\ Segment.frame \in Seq(InstrType)
  BY <1>1, ScriptAssumption DEF ScriptAssumption, Segment
<1> QED BY <1>2, <1>3 DEF Limits, Programs

LEMMA StepsMap ==
  ASSUME RefInv, EndRun \/ Step
  PROVE  M!Next /\ ExactInv'
<1> USE DEF RefInv
<1>1. \A v : <<v>> # <<>>
  OBVIOUS
<1>2. running /\ returned = <<>> /\ error = "OK"
  <2>1. running
    BY DEF EndRun, Step, RunOffEnd, Reject, StopOp, TrapOp, Xchg, Emit, RecurseBottom,
       RecurseTooDeep, RecursePush, Compute, Executing, Stepping
  <2> QED BY <2>1 DEF Driven, ExactInv
<1>3. frame' = frame
  BY DEF EndRun, Step, RunOffEnd, Reject, StopOp, TrapOp, Xchg, Emit, RecurseBottom,
     RecurseTooDeep, RecursePush, Compute, Executing, setup
<1>4. returned' = <<>> => error' = "OK"
  <2>1. returned' # <<>> \/ error' = error
    <3>1. EndRun \/ Fine \/ Halt \/ \E e : Fail(e)
      BY DEF Step, RunOffEnd, Reject, StopOp, TrapOp, Xchg, Emit, RecurseBottom,
         RecurseTooDeep, RecursePush, Compute
    <3> QED BY <1>1, <3>1, Zenon DEF EndRun, Fine, Halt, Fail
  <2> QED BY <1>2, <2>1
<1>5. CASE EndRun
  <2>1. /\ running /\ (halted \/ steps >= budget) /\ running' = FALSE /\ returned' # <<>>
        /\ UNCHANGED <<setup, core, tape, halted, error, steps, budget>>
    BY <1>1, <1>5, Zenon DEF EndRun
  <2>2. Outcome' = "fold" /\ Started' = Started
    BY <1>2, <2>1 DEF Outcome, Started
  <2>3. M!EndRun
    BY <2>1, <2>2, FrameMaps DEF M!EndRun
  <2>4. regs' = regs /\ stack' = stack
    BY <2>1 DEF core
  <2> QED BY <1>3, <1>4, <2>3, <2>4 DEF M!Next, ExactInv
<1>6. CASE RunOffEnd \/ Reject \/ StopOp \/ TrapOp \/ RecurseBottom \/ RecurseTooDeep
  <2>1. M!Step
    BY <1>6, StopsMap DEF M!Step
  <2>2. regs' = regs /\ stack' = stack
    BY <1>6 DEF RunOffEnd, Reject, StopOp, TrapOp, RecurseBottom, RecurseTooDeep, core
  <2> QED BY <1>3, <1>4, <2>1, <2>2 DEF M!Next, ExactInv
<1>7. CASE Xchg \/ Emit \/ Compute
  <2>1. M!Step /\ regs' \in [Regs -> FullWord]
    BY <1>7, XchgMaps, EmitMaps, ComputeMaps DEF M!Step
  <2>2. stack' = stack
    BY <1>7 DEF Xchg, Emit, Compute
  <2> QED BY <1>3, <1>4, <2>1, <2>2 DEF M!Next, ExactInv
<1>8. CASE RecursePush
  <2>1. M!Step /\ regs' \in [Regs -> FullWord] /\ stack' \in Seq({stack'[k] : k \in 1 .. Len(stack')})
    BY <1>8, PushMaps DEF M!Step
  <2> QED BY <1>3, <1>4, <2>1 DEF M!Next, ExactInv
<1> QED BY <1>5, <1>6, <1>7, <1>8 DEF Step

LEMMA MachineStays ==
  ASSUME ExactInv, UNCHANGED machine PROVE UNCHANGED M!vars /\ ExactInv'
<1>1. UNCHANGED <<setup, core, tape, control>>
  BY DEF machine
<1>2. UNCHANGED <<Plain(frame), piped, M!core, Places>>
  BY <1>1, FrameMaps
<1>3. UNCHANGED <<halted, error, running, steps, budget, returned, frame, regs, stack>>
  BY <1>1 DEF control, setup, core
<1>4. UNCHANGED <<Outcome, Started>>
  BY <1>3 DEF Outcome, Started
<1> QED BY <1>2, <1>3, <1>4 DEF M!vars, M!control, ExactInv

LEMMA LaunchMaps ==
  ASSUME RefInv, Launch PROVE M!Next /\ ExactInv'
<1> USE DEF RefInv
<1>1. /\ Inside("run") /\ returned = <<>> /\ ~running /\ running' = TRUE /\ steps' = 0
      /\ budget' = Segment.max
      /\ UNCHANGED <<setup, core, tape, halted, error, returned>>
  BY DEF Launch, StartRun
<1>2. Segment.max \in Limits
  BY <1>1, SegmentIsRequest
<1>3. Started = 0 /\ Started' = 1 /\ Outcome' = Outcome
  BY <1>1 DEF Started, Outcome
<1>4. UNCHANGED <<Plain(frame), piped, M!core, Places>>
  BY <1>1, FrameMaps
<1>5. M!StartRun(Segment.max)
  <2>1. 0 < 1 /\ 0 + 1 = 1
    BY SMT
  <2> QED BY <1>1, <1>3, <1>4, <2>1 DEF M!StartRun
<1>6. UNCHANGED <<frame, regs, stack>>
  BY <1>1 DEF setup, core
<1> QED BY <1>1, <1>2, <1>5, <1>6 DEF M!Next, ExactInv

LEMMA MachineStep ==
  RefInv /\ [Next]_vars => [M!Next \/ M!Init']_(M!vars) /\ ExactInv'
<1> SUFFICES ASSUME RefInv, [Next]_vars PROVE [M!Next \/ M!Init']_(M!vars) /\ ExactInv'
  OBVIOUS
<1>1. CASE SelfTest \/ Verdict \/ MixColumns \/ Doubling \/ Rotations \/ Fibonacci
           \/ Multiply \/ Collect \/ ReadWord \/ EndRead \/ Dump \/ UNCHANGED vars
  <2>1. UNCHANGED machine
    BY <1>1 DEF SelfTest, Verdict, MixColumns, Doubling, Rotations, Fibonacci, Multiply,
       Report, Show, Collect, ReadWord, EndRead, Dump, vars
  <2> QED BY <2>1, MachineStays DEF RefInv
<1>2. CASE Prepare
  <2>1. Inside("run") /\ Boot(Segment.depth, Segment.frame, Segment.inject)
    BY <1>2 DEF Prepare
  <2> QED BY <2>1, SegmentIsRequest, BootMaps DEF RefInv
<1>3. CASE PrepareRead
  <2>1. Boot(DefaultDepth, <<>>, <<>>)
    BY <1>3 DEF PrepareRead
  <2>2. DefaultDepth \in Nat /\ <<>> \in Seq(InstrType) /\ Plain(Built(<<>>)) \in Programs
    BY EmptyViews, ExactSizes, SMT DEF ExactSizes
  <2> QED BY <2>1, <2>2, BootMaps
<1>4. CASE Launch
  BY <1>4, LaunchMaps
<1>5. CASE Running
  BY <1>5, StepsMap DEF Running
<1> QED BY <1>1, <1>2, <1>3, <1>4, <1>5 DEF Next

(* Every step of the exact interpreter, from jxcl_init to jxcl_run's       *)
(* return and through a trap in any instruction, is a step JXCLMachine     *)
(* allows, or changes nothing of it: for every script, every program in it, *)
(* every depth, limit and injection, and every size of the trace.           *)
THEOREM MachineImplemented == Spec => ImplementsMachine
<1>1. Init => M!Init /\ ExactInv /\ TraceInv /\ CallInv
  BY MachineStarts, TraceInit, CallInit DEF Init
<1>2. ExactInv /\ TraceInv /\ CallInv /\ [Next]_vars =>
        [M!Next \/ M!Init']_(M!vars) /\ (ExactInv /\ TraceInv /\ CallInv)'
  BY MachineStep, TraceStep, CallStep DEF RefInv, CallInv
<1> QED BY <1>1, <1>2, PTL DEF Spec, ImplementsMachine

-----------------------------------------------------------------------------
(* JXCLMachine's theorems, of the exact machine.                           *)
P == INSTANCE JXCLMachineProofs WITH
  W <- 2^FullBits, Low <- 2^LongBits,
  Frames <- Programs, Depths <- 0 .. MaxDepth, Budgets <- Limits, MaxRuns <- 1,
  frame <- Plain(frame), regs <- Numbers, stack <- SavedDepths, output <- DOMAIN output,
  trace <- Places, returned <- Outcome, runs <- Started

(* The sizes of the exact machine are sizes JXCLMachine allows.            *)
LEMMA WordsFit == P!WordAssumption
<1> DEFINE w == 2^FullBits  l == 2^LongBits
<1>1. 2^4 <= l /\ 2 * l <= w /\ l \in Nat /\ w \in Nat
  <2>1. LongBits \in Nat /\ FullBits \in Nat /\ 4 <= LongBits /\ LongBits + 1 <= FullBits
    BY Widths, SMT
  <2>2. 2^4 <= 2^LongBits
    BY <2>1, PowerGrows
  <2>4. LongBits + 1 \in Nat
    BY <2>1, SMT
  <2>5. 2^(LongBits + 1) <= 2^FullBits
    BY <2>1, <2>4, PowerGrows
  <2>3. 2^(LongBits + 1) = 2 * 2^LongBits /\ 2^LongBits \in Nat /\ 2^FullBits \in Nat
    BY <2>1, PowerStep, PowerNat
  <2> QED BY <2>2, <2>3, <2>5
<1> HIDE DEF w, l
<1>2. w \in Nat /\ l \in Nat \ {0} /\ l + 1 < w /\ w > 3
  BY <1>1, Sixteen, SMT
<1> QED BY <1>2 DEF w, l, P!WordAssumption

LEMMA DepthsFit == P!DepthAssumption
<1> DEFINE w == 2^FullBits
<1> HIDE DEF w
<1>1. MaxDepth < w
  BY ExactSizes DEF ExactSizes, w
<1>2. MaxDepth \in Nat /\ DefaultDepth \in 0 .. MaxDepth /\ 0 .. MaxDepth \subseteq Nat
  BY ExactSizes, SMT DEF ExactSizes
<1> QED BY <1>1, <1>2 DEF w, P!DepthAssumption

LEMMA SizesFit == P!SizeAssumption
<1> DEFINE l == 2^LongBits
<1> HIDE DEF l
<1>1. OutputSize < l
  BY ExactSizes DEF ExactSizes, l
<1>2. /\ StackSize \in Nat /\ MaxDepth <= StackSize
      /\ TraceSize \in Nat /\ OutputSize \in Nat
  BY ExactSizes, SMT DEF ExactSizes
<1> QED BY <1>1, <1>2 DEF l, P!SizeAssumption

LEMMA ProgramsFit == P!FrameAssumption /\ P!BudgetAssumption
<1>1. ASSUME NEW s \in Seq(InstrType) PROVE Plain(s) \in Seq(P!Instr)
  <2>1. DOMAIN Plain(s) = 1 .. Len(s) /\ Len(s) \in Nat
    BY DEF Plain
  <2>2. ASSUME NEW i \in 1 .. Len(s) PROVE Plain(s)[i] \in P!Instr
    <3>1. s[i] \in InstrType
      BY <2>1
    <3>2. (IF s[i].op \in Opcodes THEN s[i].op ELSE "bad") \in P!Opcodes \cup {"bad"}
      BY DEF Opcodes, P!Opcodes, P!BitOps, P!ExactOps
    <3>3. /\ s[i].dst \in P!Operand /\ s[i].src0 \in P!Operand /\ s[i].src1 \in P!Operand
          /\ s[i].writeback \in BOOLEAN
      BY <3>1 DEF InstrType, Operand, Regs, P!Operand, P!Regs
    <3> QED BY <3>2, <3>3 DEF Plain, P!Instr
  <2>3. Plain(s) = [i \in 1 .. Len(s) |-> Plain(s)[i]]
    BY <2>1 DEF Plain
  <2>4. Plain(s) \in [1 .. Len(s) -> P!Instr]
    BY <2>2, <2>3
  <2> HIDE DEF Plain
  <2>5. Plain(s) \in UNION {[1 .. n -> P!Instr] : n \in Nat}
    BY <2>1, <2>4, Zenon
  <2> QED BY <2>5, SeqDef, Zenon
<1>2. ASSUME NEW r \in Requests PROVE Plain(Built(r.frame)) \in Seq(P!Instr) /\ r.max \in Nat
  <2>1. r.frame \in Seq(InstrType) /\ r.max \in Nat
    BY ScriptAssumption DEF ScriptAssumption, Requests
  <2> QED BY <2>1, <1>1, BuiltType
<1>3. <<>> \in Seq(P!Instr) /\ 1 \in Nat
  OBVIOUS
<1> QED BY <1>2, <1>3 DEF P!FrameAssumption, P!BudgetAssumption, Programs, Limits

(* What M and P take from JXCLMachine is the same.                         *)
LEMMA SameMeaning ==
  /\ M!Regs = P!Regs /\ M!Word = P!Word /\ M!Operand = P!Operand
  /\ M!PC = P!PC /\ M!D = P!D /\ M!Fetched = P!Fetched /\ M!TooDeep = P!TooDeep
  /\ M!BitOps = P!BitOps /\ M!ExactOps = P!ExactOps
  /\ M!Opcodes = P!Opcodes /\ M!FlagOps = P!FlagOps
BY DEF M!Regs, P!Regs, M!Word, P!Word, M!Operand, P!Operand, M!PC, P!PC, M!D, P!D, M!Fetched,
   P!Fetched, M!TooDeep, P!TooDeep, M!BitOps, P!BitOps, M!ExactOps, P!ExactOps, M!Opcodes,
   P!Opcodes, M!FlagOps, P!FlagOps

LEMMA Fit ==
  /\ P!WordAssumption /\ P!DepthAssumption /\ P!SizeAssumption
  /\ P!FrameAssumption /\ P!BudgetAssumption
BY WordsFit, DepthsFit, SizesFit, ProgramsFit

LEMMA SameInits == M!Init => P!Init
BY DEF M!Init, P!Init, M!Boot, P!Boot, M!Regs, P!Regs

LEMMA SameStarts ==
  ASSUME NEW max PROVE M!StartRun(max) => P!StartRun(max)
BY DEF M!StartRun, P!StartRun, M!core, P!core

LEMMA SameEnds == M!EndRun => P!EndRun
BY DEF M!EndRun, P!EndRun, M!core, P!core

LEMMA SameFine == M!Fine => P!Fine
BY DEF M!Fine, P!Fine

LEMMA SameFail == ASSUME NEW e PROVE M!Fail(e) => P!Fail(e)
BY DEF M!Fail, P!Fail

LEMMA SameExecuting == ASSUME NEW ops PROVE M!Executing(ops) => P!Executing(ops)
BY DEF M!Executing, P!Executing, M!Stepping, P!Stepping, M!PC, P!PC, M!Fetched, P!Fetched,
   M!Decodes, P!Decodes, M!Record, P!Record, M!Opcodes, P!Opcodes, M!BitOps, P!BitOps,
   M!ExactOps, P!ExactOps

LEMMA SameStops ==
  M!RunOffEnd \/ M!Reject \/ M!StopOp \/ M!TrapOp =>
    P!RunOffEnd \/ P!Reject \/ P!StopOp \/ P!TrapOp
BY SameExecuting, SameFail DEF M!RunOffEnd, P!RunOffEnd, M!Reject, P!Reject, M!StopOp, P!StopOp,
   M!TrapOp, P!TrapOp, M!Halt, P!Halt, M!core, P!core, M!PC, P!PC, M!Fetched, P!Fetched,
   M!Stepping, P!Stepping, M!Decodes, P!Decodes, M!Opcodes, P!Opcodes, M!BitOps, P!BitOps,
   M!ExactOps, P!ExactOps

LEMMA SameXchg == M!Xchg => P!Xchg
BY SameExecuting DEF M!Xchg, P!Xchg, M!Fine, P!Fine, M!Fetched, P!Fetched, M!Written, P!Written,
   M!Read, P!Read, M!Regs, P!Regs, M!PC, P!PC

LEMMA SameEmit == M!Emit => P!Emit
BY SameExecuting DEF M!Emit, P!Emit, M!Fine, P!Fine, M!HasSlot, P!HasSlot, M!NextSlot, P!NextSlot

LEMMA SameRecurse ==
  M!RecurseBottom \/ M!RecurseTooDeep \/ M!RecursePush =>
    P!RecurseBottom \/ P!RecurseTooDeep \/ P!RecursePush
BY SameExecuting, SameFail DEF M!RecurseBottom, M!RecurseTooDeep, M!RecursePush, P!RecurseBottom,
   P!RecurseTooDeep, P!RecursePush, M!D, P!D, M!TooDeep, P!TooDeep, M!Fine, P!Fine, M!core, P!core

LEMMA SameResults ==
  ASSUME NEW op, NEW a, NEW b
  PROVE  /\ M!Results(op, a, b) = P!Results(op, a, b)
         /\ \A r : M!FlagWords(op, a, b, r) = P!FlagWords(op, a, b, r)
         /\ M!Accumulated(a, b) = P!Accumulated(a, b)
BY SameMeaning DEF M!Results, P!Results, M!FlagWords, P!FlagWords, M!Accumulated, P!Accumulated

LEMMA SameCompute == M!Compute => P!Compute
<1> SUFFICES ASSUME M!Compute PROVE P!Compute
  OBVIOUS
<1>1. P!Executing(P!BitOps \cup P!ExactOps)
  BY SameExecuting, SameMeaning DEF M!Compute
<1>2. P!Fine /\ epoch' = epoch + 1 /\ UNCHANGED <<depth, SavedDepths, DOMAIN output>>
  <2>1. M!Fine /\ epoch' = epoch + 1 /\ UNCHANGED <<depth, SavedDepths, DOMAIN output>>
    BY Zenon DEF M!Compute
  <2>2. P!Fine
    BY <2>1, SameFine, Zenon
  <2> QED BY <2>1, <2>2, Zenon
<1>3. \A x, r : P!Accumulated(x, r) = M!Accumulated(x, r)
  BY SameResults
<1>4. \A r : P!Read(r) = M!Read(r)
  BY SameMeaning DEF M!Read, P!Read
<1>5. \A rs, r, v : P!Written(rs, r, v) = M!Written(rs, r, v)
  BY SameMeaning DEF M!Written, P!Written
<1>6. \A op, a, b : P!Results(op, a, b) = M!Results(op, a, b)
  BY SameResults
<1>7. \A op, a, b, r : P!FlagWords(op, a, b, r) = M!FlagWords(op, a, b, r)
  BY SameResults
<1>8. P!Fetched = M!Fetched
  BY SameMeaning
<1> QED BY <1>1, <1>2, <1>3, <1>4, <1>5, <1>6, <1>7, <1>8 DEF M!Compute, P!Compute

LEMMA SameMachineStep == [M!Next]_(M!vars) => [P!Next]_(P!vars)
<1>1. M!Next => P!Next
  BY SameStarts, SameEnds, SameStops, SameXchg, SameEmit, SameRecurse, SameCompute
     DEF M!Next, P!Next, M!Step, P!Step
<1>2. UNCHANGED M!vars => UNCHANGED P!vars
  BY DEF M!vars, P!vars, M!core, P!core, M!control, P!control
<1> QED BY <1>1, <1>2

(* The inductive invariants of JXCLMachineProofs, of the mapped machine.   *)
Sound == P!TypeOK /\ P!Recursing /\ P!Packed /\ P!Traced

LEMMA SoundInit == M!Init => Sound
<1>1. P!Init => P!TypeOK
  BY Fit, P!InitType, Zenon DEF P!InitType
<1>2. P!Init => P!Recursing
  BY Fit, P!RecursingInit, Zenon DEF P!RecursingInit
<1>3. P!Init => P!Packed
  BY Fit, P!PackedInit, Zenon DEF P!PackedInit
<1>4. P!Init => P!Traced
  BY Fit, P!TracedInit, Zenon DEF P!TracedInit
<1> QED BY <1>1, <1>2, <1>3, <1>4, SameInits DEF Sound

LEMMA SoundStep == Sound /\ [M!Next]_(M!vars) => Sound'
<1>1. P!TypeOK /\ [P!Next]_(P!vars) => P!TypeOK'
  BY Fit, P!StepType, Zenon DEF P!StepType
<1>2. P!TypeOK /\ P!Recursing /\ [P!Next]_(P!vars) => P!Recursing'
  BY Fit, P!RecursingStep, Zenon DEF P!RecursingStep
<1>3. P!TypeOK /\ P!Packed /\ [P!Next]_(P!vars) => P!Packed'
  BY Fit, P!PackedStep, Zenon DEF P!PackedStep
<1>4. P!TypeOK /\ P!Traced /\ [P!Next]_(P!vars) => P!Traced'
  BY Fit, P!TracedStep, Zenon DEF P!TracedStep
<1> QED BY <1>1, <1>2, <1>3, <1>4, SameMachineStep DEF Sound

LEMMA SoundShows ==
  Sound => /\ M!TypeOK /\ M!RecursionBounded /\ M!SavedDepthsNest
           /\ M!OutputsContiguous /\ M!TraceIsRun
<1>1. P!TypeOK => M!TypeOK
  BY DEF M!TypeOK, P!TypeOK, M!Regs, P!Regs, M!Word, P!Word
<1>2. P!Recursing => M!RecursionBounded
  BY SameMeaning DEF P!Recursing, M!RecursionBounded
<1>3. P!Recursing => M!SavedDepthsNest
  BY SameMeaning DEF P!Recursing, M!SavedDepthsNest
<1>4. P!Packed => M!OutputsContiguous
  BY DEF P!Packed, P!Untouched, M!OutputsContiguous
<1>5. P!Traced => M!TraceIsRun
  BY SameMeaning DEF P!Traced, M!TraceIsRun, P!TraceIsRun, P!WritesPC, M!WritesPC
<1> QED BY <1>1, <1>2, <1>3, <1>4, <1>5 DEF Sound

(* What is proved of JXCLMachine holds of the program's machine at every   *)
(* moment of every script: nothing is written outside stack, output and    *)
(* trace, RECURSE cannot overflow the stack whatever a program writes to   *)
(* DEPTH, saved depths count down, outputs have no gaps and the trace is   *)
(* a run.                                                                  *)
THEOREM RunsAreSound ==
  Spec => [](/\ M!TypeOK /\ M!RecursionBounded /\ M!SavedDepthsNest
             /\ M!OutputsContiguous /\ M!TraceIsRun)
<1>1. ImplementsMachine => []Sound
  <2>1. [M!Next \/ M!Init']_(M!vars) /\ Sound => Sound'
    <3>1. M!Init' => Sound'
      BY SoundInit, PTL
    <3> QED BY <3>1, SoundStep
  <2> QED BY <2>1, SoundInit, PTL DEF ImplementsMachine
<1> QED BY <1>1, MachineImplemented, SoundShows, PTL
=============================================================================
