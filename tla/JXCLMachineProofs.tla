------------------------- MODULE JXCLMachineProofs -------------------------
(* What JXCLMachine promises for every word size, every program, every     *)
(* depth and every budget.                                                 *)
EXTENDS JXCLMachine, SequenceTheorems, TLAPS

Errors == {"OK", "ILLEGAL_OPCODE", "ILLEGAL_REG", "DEPTH_EXCEEDED", "STACK_OVERFLOW"}

ProgramOK == frame \in Frames /\ piped \in BOOLEAN
RegsOK == regs \in [Regs -> Word]
MemoryOK ==
  /\ depth \in 0 .. MaxDepth /\ epoch \in Nat
  /\ stack \in Seq(0 .. MaxDepth) /\ Len(stack) <= StackSize
  /\ output \subseteq 0 .. OutputSize - 1
TraceOK == trace \in Seq(Word \X Nat) /\ Len(trace) <= TraceSize
ControlOK ==
  /\ halted \in BOOLEAN /\ running \in BOOLEAN
  /\ error \in Errors
  /\ steps \in Nat /\ budget \in Nat /\ runs \in 0 .. MaxRuns
  /\ returned \in {"none", "zero", "fold"}

LEMMA TypeParts ==
  TypeOK <=> ProgramOK /\ RegsOK /\ MemoryOK /\ TraceOK /\ ControlOK
BY DEF TypeOK, ProgramOK, RegsOK, MemoryOK, TraceOK, ControlOK, Errors

LEMMA TypePartsPrime ==
  TypeOK' <=> ProgramOK' /\ RegsOK' /\ MemoryOK' /\ TraceOK' /\ ControlOK'
BY DEF TypeOK, ProgramOK, RegsOK, MemoryOK, TraceOK, ControlOK, Errors

-----------------------------------------------------------------------------
(* Words.                                                                  *)

LEMMA ReadWord == ASSUME RegsOK, NEW r PROVE Read(r) \in Word
BY WordAssumption DEF WordAssumption, RegsOK, Read, Word

LEMMA WrittenWords ==
  ASSUME NEW rs \in [Regs -> Word], NEW r, NEW v \in Word
  PROVE  Written(rs, r, v) \in [Regs -> Word]
BY DEF Written

LEMMA ModuloWord ==
  ASSUME NEW a \in Int, NEW n \in Nat \ {0} PROVE a % n \in 0 .. n - 1
BY SMT

LEMMA LowWord == ASSUME NEW a \in Word PROVE a % Low \in 0 .. Low - 1
<1>1. a \in Int /\ Low \in Nat \ {0}
  BY WordAssumption DEF WordAssumption, Word
<1> QED BY <1>1, ModuloWord, Zenon

LEMMA RegisterWords ==
  ASSUME RegsOK
  PROVE  /\ D \in Word /\ PC \in Word
         /\ regs["FLAGS"] \in Word /\ regs["OUT_PTR"] \in Word
BY DEF RegsOK, D, PC, Regs

LEMMA ResultsAreWords ==
  ASSUME RegsOK, NEW op, NEW a \in Word, NEW b \in Word
  PROVE  Results(op, a, b) \subseteq Word
<1>1. 0 \in Word /\ 1 \in Word /\ 2 \in Word
  BY WordAssumption DEF WordAssumption, Word
<1>2. W - 1 - a \in Word
  BY WordAssumption DEF WordAssumption, Word
<1>3. (a + b) % W \in Word /\ (a - b) % W \in Word
  <2>1. a + b \in Int /\ a - b \in Int /\ W \in Nat \ {0}
    BY WordAssumption DEF WordAssumption, Word
  <2> QED BY <2>1, ModuloWord, Zenon DEF Word
<1> QED BY <1>1, <1>2, <1>3, Zenon DEF Results

LEMMA FlagWordsAreWords ==
  ASSUME RegsOK, NEW op, NEW a, NEW b, NEW r
  PROVE  FlagWords(op, a, b, r) \subseteq Word
<1> DEFINE low == regs["FLAGS"] % Low
           kept == (low \div 16) * 16
<1>1. low \in 0 .. Low - 1
  BY LowWord, RegisterWords, Zenon
<1> HIDE DEF low
<1>2. kept \in 0 .. Low - 1
  BY <1>1, WordAssumption, SMT DEF WordAssumption
<1> HIDE DEF kept
<1>3. kept \in Word /\ kept + 1 \in Word /\ kept + 2 \in Word
  BY <1>2, WordAssumption, SMT DEF WordAssumption, Word
<1> QED
  BY <1>3, RegisterWords DEF FlagWords, low, kept

(* An instruction that is reached is an instruction. *)
LEMMA FetchedInstr ==
  ASSUME ProgramOK, RegsOK, PC < Len(frame)
  PROVE  Fetched \in Instr /\ PC + 1 \in 1 .. Len(frame)
<1>1. frame \in Seq(Instr)
  BY FrameAssumption DEF FrameAssumption, ProgramOK
<1>2. PC + 1 \in 1 .. Len(frame)
  BY <1>1, RegisterWords DEF Word
<1> QED BY <1>1, <1>2 DEF Fetched

-----------------------------------------------------------------------------
(* Type correctness.                                                       *)

LEMMA FineType == ASSUME ControlOK, Fine PROVE ControlOK'
BY DEF ControlOK, Fine, Errors

LEMMA HaltType == ASSUME ControlOK, Halt PROVE ControlOK'
BY DEF ControlOK, Halt, Errors

LEMMA FailType ==
  ASSUME ControlOK, NEW e \in Errors, Fail(e) PROVE ControlOK'
BY DEF ControlOK, Fail, Errors

LEMMA ExecutingType ==
  ASSUME TypeOK, NEW ops, Executing(ops)
  PROVE  ProgramOK' /\ TraceOK'
<1> USE TypeParts
<1>1. ProgramOK'
  BY DEF Executing, ProgramOK
<1>2. TraceOK'
  <2>1. <<PC, epoch>> \in Word \X Nat
    BY RegisterWords DEF MemoryOK
  <2> QED BY <2>1, SizeAssumption DEF SizeAssumption, Executing, Record, TraceOK
<1> QED BY <1>1, <1>2

LEMMA InitType == Init => TypeOK
<1> SUFFICES ASSUME Init PROVE TypeOK
  OBVIOUS
<1>1. RegsOK /\ depth \in 0 .. MaxDepth
  <2>1. ASSUME NEW d \in 0 .. MaxDepth, NEW s \in 0 .. MaxDepth, Boot(d, s)
        PROVE  RegsOK /\ depth \in 0 .. MaxDepth
    BY <2>1, WordAssumption, DepthAssumption
    DEF WordAssumption, DepthAssumption, Boot, RegsOK, Word
  <2>2. CASE Boot(DefaultDepth, 0)
    BY <2>1, <2>2, DepthAssumption DEF DepthAssumption
  <2>3. CASE \E d \in Depths : LET c == IF d > MaxDepth THEN MaxDepth ELSE d IN Boot(c, c)
    <3>1. PICK d \in Depths : LET c == IF d > MaxDepth THEN MaxDepth ELSE d IN Boot(c, c)
      BY <2>3
    <3> DEFINE c == IF d > MaxDepth THEN MaxDepth ELSE d
    <3>2. c \in 0 .. MaxDepth
      BY DepthAssumption DEF DepthAssumption
    <3>3. Boot(c, c)
      BY <3>1
    <3> QED BY <2>1, <3>2, <3>3
  <2> QED BY <2>2, <2>3 DEF Init
<1>2. MemoryOK
  BY <1>1, SizeAssumption DEF SizeAssumption, Init, MemoryOK
<1>3. TraceOK
  BY SizeAssumption DEF SizeAssumption, Init, TraceOK
<1>4. ProgramOK /\ ControlOK
  <2>1. ProgramOK /\ halted \in BOOLEAN /\ running \in BOOLEAN
    BY Zenon DEF Init, ProgramOK
  <2>2. error \in Errors /\ returned \in {"none", "zero", "fold"}
    BY DEF Init, Errors
  <2>3. steps \in Nat /\ budget \in Nat /\ runs \in 0 .. MaxRuns
    BY BudgetAssumption DEF BudgetAssumption, Init
  <2> QED BY <2>1, <2>2, <2>3 DEF ControlOK
<1> QED BY <1>1, <1>2, <1>3, <1>4, TypeParts

LEMMA CallType ==
  ASSUME TypeOK, (\E max \in Budgets : StartRun(max)) \/ EndRun
  PROVE  TypeOK'
<1>1. ProgramOK' /\ RegsOK' /\ MemoryOK' /\ TraceOK'
  BY TypeParts DEF StartRun, EndRun, core, ProgramOK, RegsOK, MemoryOK, TraceOK
<1>2. ControlOK'
  <2>1. halted' \in BOOLEAN /\ running' \in BOOLEAN /\ error' \in Errors
    BY TypeParts DEF StartRun, EndRun, ControlOK
  <2>2. steps' \in Nat /\ budget' \in Nat /\ runs' \in 0 .. MaxRuns
    BY TypeParts, BudgetAssumption DEF BudgetAssumption, StartRun, EndRun, ControlOK
  <2>3. returned' \in {"none", "zero", "fold"}
    BY TypeParts DEF StartRun, EndRun, ControlOK
  <2> QED BY <2>1, <2>2, <2>3 DEF ControlOK
<1> QED BY <1>1, <1>2, TypePartsPrime

(* The steps that leave registers and memory alone. *)
LEMMA StopType ==
  ASSUME TypeOK, RunOffEnd \/ Reject \/ StopOp \/ TrapOp \/ RecurseTooDeep
  PROVE  TypeOK'
<1>1. UNCHANGED core
  BY DEF RunOffEnd, Reject, StopOp, TrapOp, RecurseTooDeep
<1>2. RegsOK' /\ MemoryOK'
  BY <1>1, TypeParts DEF core, RegsOK, MemoryOK
<1>3. ProgramOK' /\ TraceOK'
  BY TypeParts, ExecutingType
  DEF RunOffEnd, Reject, StopOp, TrapOp, RecurseTooDeep, ProgramOK, TraceOK
<1>4. ControlOK'
  BY TypeParts, HaltType, FailType
  DEF RunOffEnd, Reject, StopOp, TrapOp, RecurseTooDeep, Errors
<1> QED BY <1>2, <1>3, <1>4, TypePartsPrime

LEMMA XchgType == ASSUME TypeOK, Xchg PROVE TypeOK'
<1>1. RegsOK'
  BY TypeParts, ReadWord, WrittenWords DEF Xchg, RegsOK
<1>2. MemoryOK'
  BY TypeParts DEF Xchg, MemoryOK
<1>3. ProgramOK' /\ TraceOK' /\ ControlOK'
  BY TypeParts, ExecutingType, FineType DEF Xchg
<1> QED BY <1>1, <1>2, <1>3, TypePartsPrime

LEMMA EmitType == ASSUME TypeOK, Emit PROVE TypeOK'
<1> DEFINE op == regs["OUT_PTR"] % Low
<1>1. op \in 0 .. Low - 1
  BY TypeParts, LowWord, RegisterWords, Zenon
<1> HIDE DEF op
<1>2. HasSlot(op) => op \in 0 .. OutputSize - 1 /\ NextSlot(op) \in Word
  BY <1>1, WordAssumption, SizeAssumption
  DEF WordAssumption, SizeAssumption, HasSlot, NextSlot, Word
<1>3. \/ HasSlot(op) /\ output' = output \cup {op}
                     /\ regs' = [regs EXCEPT !["OUT_PTR"] = NextSlot(op)]
      \/ UNCHANGED <<output, regs>>
  BY DEF Emit, op
<1>4. RegsOK' /\ MemoryOK'
  BY <1>2, <1>3, TypeParts DEF Emit, RegsOK, MemoryOK
<1>5. ProgramOK' /\ TraceOK' /\ ControlOK'
  BY TypeParts, ExecutingType, FineType DEF Emit
<1> QED BY <1>4, <1>5, TypePartsPrime

LEMMA RecurseType == ASSUME TypeOK, RecurseBottom \/ RecursePush PROVE TypeOK'
<1>1. RegsOK' /\ MemoryOK'
  <2>1. CASE RecurseBottom
    BY <2>1, TypeParts DEF RecurseBottom, RegsOK, MemoryOK
  <2>2. CASE RecursePush /\ Len(stack) >= StackSize
    BY <2>2, TypeParts DEF RecursePush, core, RegsOK, MemoryOK
  <2>3. CASE RecursePush /\ ~(Len(stack) >= StackSize)
    <3>1. D - 1 \in Word /\ D - 1 \in 0 .. MaxDepth
      <4>1. D \in Word
        BY TypeParts, RegisterWords
      <4>2. D # 0 /\ ~(D > MaxDepth)
        BY <2>3 DEF RecursePush, TooDeep
      <4> QED BY <4>1, <4>2, DepthAssumption, WordAssumption
              DEF DepthAssumption, WordAssumption, Word
    <3>2. RegsOK'
      BY <2>3, <3>1, TypeParts DEF RecursePush, RegsOK
    <3>3. MemoryOK'
      <4>1. /\ stack' = Append(stack, depth) /\ depth' = D - 1
            /\ epoch' = epoch + 1 /\ output' = output
        BY <2>3 DEF RecursePush
      <4>2. MemoryOK
        BY TypeParts
      <4>3. stack' \in Seq(0 .. MaxDepth) /\ Len(stack') = Len(stack) + 1
        BY <4>1, <4>2 DEF MemoryOK
      <4> QED BY <2>3, <3>1, <4>1, <4>2, <4>3, SizeAssumption DEF SizeAssumption, MemoryOK
    <3> QED BY <3>2, <3>3
  <2> QED BY <2>1, <2>2, <2>3
<1>2. ProgramOK' /\ TraceOK'
  BY TypeParts, ExecutingType DEF RecurseBottom, RecursePush
<1>3. ControlOK'
  BY TypeParts, FineType, FailType DEF RecurseBottom, RecursePush, Errors
<1> QED BY <1>1, <1>2, <1>3, TypePartsPrime

(* What Compute does to the registers, with its choices named. *)
LEMMA ComputeRegs ==
  ASSUME TypeOK, Compute
  PROVE  \E r \in Word, f \in Word, x \in Word :
           LET flagged == [regs EXCEPT !["FLAGS"] = f]
               back == IF Fetched.writeback THEN Written(flagged, Fetched.dst, r)
                       ELSE flagged
           IN regs' = back \/ regs' = [back EXCEPT !["ACC0"] = x]
<1> DEFINE a == Read(Fetched.src0)
           b == Read(Fetched.src1)
           Back(r, f) == IF Fetched.writeback
                           THEN Written([regs EXCEPT !["FLAGS"] = f], Fetched.dst, r)
                           ELSE [regs EXCEPT !["FLAGS"] = f]
<1>1. a \in Word /\ b \in Word
  BY TypeParts, ReadWord
<1>2. PICK r \in Results(Fetched.op, a, b) : \E f \in FlagWords(Fetched.op, a, b, r) :
        IF Fetched.op = "ACC"
          THEN \E x \in Accumulated(Back(r, f)["ACC0"], r) :
                 regs' = [Back(r, f) EXCEPT !["ACC0"] = x]
          ELSE regs' = Back(r, f)
  BY Zenon DEF Compute
<1>5. PICK f \in FlagWords(Fetched.op, a, b, r) :
        IF Fetched.op = "ACC"
          THEN \E x \in Accumulated(Back(r, f)["ACC0"], r) :
                 regs' = [Back(r, f) EXCEPT !["ACC0"] = x]
          ELSE regs' = Back(r, f)
  BY <1>2
<1>3. r \in Word /\ f \in Word
  BY <1>1, TypeParts, ResultsAreWords, FlagWordsAreWords
<1>4. Accumulated(Back(r, f)["ACC0"], r) \subseteq Word
  BY <1>3 DEF Accumulated
<1> QED BY <1>5, <1>3, <1>4

LEMMA ComputeType == ASSUME TypeOK, Compute PROVE TypeOK'
<1>1. RegsOK'
  <2>1. PICK r \in Word, f \in Word, x \in Word :
          LET flagged == [regs EXCEPT !["FLAGS"] = f]
              back == IF Fetched.writeback THEN Written(flagged, Fetched.dst, r)
                      ELSE flagged
          IN regs' = back \/ regs' = [back EXCEPT !["ACC0"] = x]
    BY ComputeRegs
  <2> DEFINE flagged == [regs EXCEPT !["FLAGS"] = f]
             back == IF Fetched.writeback THEN Written(flagged, Fetched.dst, r)
                     ELSE flagged
  <2>2. flagged \in [Regs -> Word]
    BY TypeParts DEF RegsOK
  <2>3. back \in [Regs -> Word]
    BY <2>2, WrittenWords
  <2> QED BY <2>1, <2>3 DEF RegsOK
<1>2. MemoryOK'
  BY TypeParts DEF Compute, MemoryOK
<1>3. ProgramOK' /\ TraceOK' /\ ControlOK'
  BY TypeParts, ExecutingType, FineType DEF Compute
<1> QED BY <1>1, <1>2, <1>3, TypePartsPrime

LEMMA StutterType == ASSUME TypeOK, UNCHANGED vars PROVE TypeOK'
BY DEF TypeOK, vars, core, control

LEMMA StepType == TypeOK /\ [Next]_vars => TypeOK'
BY CallType, StopType, XchgType, EmitType, RecurseType, ComputeType, StutterType
DEF Next, Step

(* Every field keeps to the type its C declaration gives it: in particular *)
(* no slot outside output, stack and trace is ever written.                *)
THEOREM TypeCorrect == Spec => []TypeOK
BY InitType, StepType, PTL DEF Spec

-----------------------------------------------------------------------------
(* Recursion.  Once a frame is pushed the program is stuck on a RECURSE it *)
(* decodes; each push takes one off DEPTH, and the register and            *)
(* state.depth agree from the first push on.                               *)
Recursing ==
  stack # <<>> =>
    /\ PC < Len(frame) /\ Decodes(Fetched) /\ Fetched.op = "RECURSE"
    /\ Len(stack) + D <= MaxDepth
    /\ error = "OK"
    /\ depth = D
    /\ \A i \in 2 .. Len(stack) : stack[i] = D + Len(stack) + 1 - i

LEMMA RecursingInit == Init => Recursing
BY DEF Init, Recursing

LEMMA RecursingKept ==
  ASSUME Recursing, UNCHANGED <<frame, regs, depth, stack, error>>
  PROVE  Recursing'
BY DEF Recursing, PC, D, Fetched, Decodes

(* Any other instruction is executed before the first push. *)
LEMMA RecursingOther ==
  ASSUME Recursing, NEW ops, Executing(ops), "RECURSE" \notin ops, UNCHANGED stack
  PROVE  Recursing'
BY DEF Recursing, Executing

LEMMA RecursingPush ==
  ASSUME TypeOK, Recursing, RecursePush
  PROVE  Recursing'
<1>1. D \in Nat /\ D # 0 /\ D <= MaxDepth /\ Executing({"RECURSE"}) /\ error = "OK"
  BY TypeParts, RegisterWords, DepthAssumption, WordAssumption
  DEF RecursePush, TooDeep, Executing, Stepping, DepthAssumption, WordAssumption, Word
<1>2. stack \in Seq(0 .. MaxDepth) /\ Len(stack) \in Nat
  BY TypeParts DEF MemoryOK
<1>3. ~(Len(stack) >= StackSize)
  BY <1>1, <1>2, DepthAssumption, SizeAssumption
  DEF Recursing, DepthAssumption, SizeAssumption
<1>4. /\ stack' = Append(stack, depth) /\ depth' = D - 1 /\ error' = error
      /\ regs' = [regs EXCEPT !["DEPTH"] = D - 1] /\ frame' = frame
  BY <1>3 DEF RecursePush, Executing, Fine
<1>5. D' = D - 1 /\ PC' = PC /\ Fetched' = Fetched
  BY <1>4, TypeParts DEF RegsOK, Regs, D, PC, Fetched
<1>6. PC' < Len(frame') /\ Decodes(Fetched)' /\ Fetched'.op = "RECURSE"
  BY <1>1, <1>4, <1>5 DEF Executing, Decodes
<1>7. Len(stack') = Len(stack) + 1
  BY <1>2, <1>4
<1>8. Len(stack') + D' <= MaxDepth
  BY <1>1, <1>2, <1>5, <1>7, DepthAssumption DEF Recursing, DepthAssumption
<1>9. ASSUME NEW i \in 2 .. Len(stack')
      PROVE  stack'[i] = D' + Len(stack') + 1 - i
  <2>1. stack # <<>>
    BY <1>2, <1>7, <1>9
  <2>2. CASE i = Len(stack) + 1
    BY <1>1, <1>2, <1>4, <1>5, <1>7, <2>1, <2>2 DEF Recursing
  <2>3. CASE i \in 2 .. Len(stack)
    <3>1. stack'[i] = stack[i] /\ stack[i] = D + Len(stack) + 1 - i
      BY <1>2, <1>4, <2>1, <2>3 DEF Recursing
    <3> QED BY <1>1, <1>2, <1>5, <1>7, <2>3, <3>1
  <2> QED BY <1>2, <1>7, <2>2, <2>3
<1> QED BY <1>1, <1>4, <1>5, <1>6, <1>8, <1>9 DEF Recursing

LEMMA RecursingStep == TypeOK /\ Recursing /\ [Next]_vars => Recursing'
<1> SUFFICES ASSUME TypeOK, Recursing, [Next]_vars PROVE Recursing'
  OBVIOUS
<1>1. CASE (\E max \in Budgets : StartRun(max)) \/ EndRun \/ UNCHANGED vars
  BY <1>1, RecursingKept DEF StartRun, EndRun, vars, core, control
<1>2. CASE RunOffEnd
  BY <1>2, RecursingKept DEF RunOffEnd, Halt, core
<1>3. CASE Reject
  BY <1>3 DEF Reject, Recursing, core
<1>4. CASE StopOp \/ TrapOp
  BY <1>4, RecursingOther DEF StopOp, TrapOp, core
<1>5. CASE Xchg \/ Emit
  BY <1>5, RecursingOther DEF Xchg, Emit
<1>6. CASE Compute
  BY <1>6, RecursingOther DEF Compute, BitOps, ExactOps
<1>7. CASE RecurseBottom
  BY <1>7, RecursingKept DEF RecurseBottom, Executing, Fine
<1>8. CASE RecurseTooDeep
  <2>1. stack = <<>>
    BY <1>8, TypeParts, RegisterWords, DepthAssumption, WordAssumption
    DEF RecurseTooDeep, TooDeep, Recursing, MemoryOK, DepthAssumption, WordAssumption, Word
  <2> QED BY <1>8, <2>1 DEF RecurseTooDeep, core, Recursing
<1>9. CASE RecursePush
  BY <1>9, RecursingPush
<1> QED BY <1>1, <1>2, <1>3, <1>4, <1>5, <1>6, <1>7, <1>8, <1>9 DEF Next, Step

LEMMA RecursingInvariant == Spec => [](TypeOK /\ Recursing)
BY InitType, StepType, RecursingInit, RecursingStep, PTL DEF Spec

(* The recursion limit of 64 holds for every program, although a program   *)
(* may write DEPTH: no push ever finds the stack full.                     *)
THEOREM RecursionLimit == Spec => []RecursionBounded
<1>1. TypeOK /\ Recursing => RecursionBounded
  BY DEF Recursing, RecursionBounded
<1> QED BY <1>1, RecursingInvariant, PTL

(* The saved depths count down to the current one.                         *)
THEOREM SavedDepths == Spec => []SavedDepthsNest
<1>1. TypeOK /\ Recursing => SavedDepthsNest
  BY DEF Recursing, SavedDepthsNest
<1> QED BY <1>1, RecursingInvariant, PTL

(* A machine that has halted or failed is not changed by any further run.  *)
THEOREM StopsForGood == Spec => StoppedForGood
<1>1. [Next]_vars => [halted => UNCHANGED <<core, trace, halted, error>>]_vars
  BY DEF Next, Step, StartRun, EndRun, RunOffEnd, Reject, StopOp, TrapOp, Xchg, Emit,
         RecurseBottom, RecurseTooDeep, RecursePush, Compute, Executing, Stepping
<1> QED BY <1>1, PTL DEF Spec, StoppedForGood

-----------------------------------------------------------------------------
(* Outputs.                                                                *)
Untouched == \A i \in 1 .. Len(frame) : "OUT_PTR" \notin {frame[i].dst, frame[i].src0}

Packed ==
  Untouched => /\ output = 0 .. regs["OUT_PTR"] - 1
               /\ regs["OUT_PTR"] <= OutputSize

LEMMA PackedInit == Init => Packed
<1> SUFFICES ASSUME Init PROVE Packed
  OBVIOUS
<1>1. regs["OUT_PTR"] = 0
  BY DEF Init, Boot, Regs
<1> QED BY <1>1, SizeAssumption DEF SizeAssumption, Init, Packed

LEMMA PackedKept ==
  ASSUME Packed, UNCHANGED <<frame, output>>, regs'["OUT_PTR"] = regs["OUT_PTR"]
  PROVE  Packed'
BY DEF Packed, Untouched

(* An instruction of an untouched program leaves OUT_PTR alone. *)
LEMMA UntouchedFetched ==
  ASSUME TypeOK, Untouched, NEW ops, Executing(ops)
  PROVE  Fetched.dst # "OUT_PTR" /\ Fetched.src0 # "OUT_PTR"
<1>1. PC + 1 \in 1 .. Len(frame)
  BY TypeParts, FetchedInstr DEF Executing
<1> QED BY <1>1 DEF Untouched, Fetched

LEMMA PackedEmit == ASSUME TypeOK, Packed, Emit PROVE Packed'
<1> DEFINE op == regs["OUT_PTR"] % Low
<1>1. CASE ~HasSlot(op)
  BY <1>1, PackedKept DEF Emit, Executing
<1>2. CASE HasSlot(op) /\ Untouched
  <2>1. regs["OUT_PTR"] \in Nat /\ regs["OUT_PTR"] <= OutputSize /\ output = 0 .. regs["OUT_PTR"] - 1
    BY <1>2, TypeParts, RegisterWords DEF Packed, Word
  <2>2. op = regs["OUT_PTR"]
    BY <2>1, SizeAssumption, WordAssumption DEF SizeAssumption, WordAssumption
  <2>3. output' = output \cup {op} /\ regs' = [regs EXCEPT !["OUT_PTR"] = op + 1]
    BY <1>2 DEF Emit, NextSlot
  <2> HIDE DEF op
  <2>4. regs'["OUT_PTR"] = op + 1
    BY <2>3, TypeParts DEF RegsOK, Regs
  <2>5. output' = 0 .. op
    BY <2>1, <2>2, <2>3
  <2>6. op + 1 <= OutputSize
    BY <1>2, <2>1, <2>2, SizeAssumption DEF SizeAssumption, HasSlot
  <2> QED BY <2>1, <2>2, <2>4, <2>5, <2>6 DEF Packed
<1>3. CASE ~Untouched
  BY <1>3 DEF Emit, Executing, Packed, Untouched
<1> QED BY <1>1, <1>2, <1>3

LEMMA PackedCompute == ASSUME TypeOK, Packed, Compute PROVE Packed'
<1>1. CASE Untouched
  <2>1. Fetched.dst # "OUT_PTR"
    BY <1>1, UntouchedFetched DEF Compute
  <2>2. regs'["OUT_PTR"] = regs["OUT_PTR"]
    BY <2>1, ComputeRegs, TypeParts DEF Written, RegsOK, Regs
  <2> QED BY <2>2, PackedKept DEF Compute, Executing
<1>2. CASE ~Untouched
  BY <1>2 DEF Compute, Executing, Packed, Untouched
<1> QED BY <1>1, <1>2

LEMMA PackedXchg == ASSUME TypeOK, Packed, Xchg PROVE Packed'
<1>1. CASE Untouched
  <2>1. Fetched.dst # "OUT_PTR" /\ Fetched.src0 # "OUT_PTR"
    BY <1>1, UntouchedFetched DEF Xchg
  <2>2. regs'["OUT_PTR"] = regs["OUT_PTR"]
    BY <2>1, TypeParts DEF Xchg, Written, RegsOK, Regs
  <2> QED BY <2>2, PackedKept DEF Xchg, Executing
<1>2. CASE ~Untouched
  BY <1>2 DEF Xchg, Executing, Packed, Untouched
<1> QED BY <1>1, <1>2

LEMMA PackedStep == TypeOK /\ Packed /\ [Next]_vars => Packed'
<1> SUFFICES ASSUME TypeOK, Packed, [Next]_vars PROVE Packed'
  OBVIOUS
<1>1. CASE UNCHANGED <<frame, core>>
  BY <1>1, PackedKept DEF core
<1>2. CASE RecursePush /\ ~UNCHANGED core
  <2>1. regs' = [regs EXCEPT !["DEPTH"] = D - 1] /\ UNCHANGED <<frame, output>>
    BY <1>2 DEF RecursePush, Executing
  <2> QED BY <2>1, TypeParts, PackedKept DEF RegsOK, Regs
<1>3. CASE RecurseBottom
  BY <1>3, PackedKept DEF RecurseBottom, Executing
<1> QED
  BY <1>1, <1>2, <1>3, PackedEmit, PackedCompute, PackedXchg
  DEF Next, Step, StartRun, EndRun, RunOffEnd, Reject, StopOp, TrapOp, RecurseTooDeep,
      RecursePush, Executing, vars

(* The outputs of a program that leaves OUT_PTR alone have no gaps.        *)
THEOREM OutputsPacked == Spec => []OutputsContiguous
<1>1. Packed => OutputsContiguous
  BY DEF Packed, Untouched, OutputsContiguous
<1> QED BY <1>1, InitType, StepType, PackedInit, PackedStep, PTL DEF Spec

-----------------------------------------------------------------------------
(* The trace.                                                              *)
Ticks(op) == IF op.op = "EMIT" THEN 0 ELSE 1

(* What TraceIsRun says of an entry and the next, said of an entry e and   *)
(* the point <<pc, t>> the machine has come to.                            *)
Leads(e, pc, t) ==
  LET op == frame[e[1] + 1]
  IN t = e[2] + Ticks(op) /\ (WritesPC(op) \/ pc = e[1])

Traced ==
  /\ TraceIsRun
  /\ ~piped => trace = <<>>
  /\ ~halted /\ trace # <<>> /\ Len(trace) < TraceSize =>
       Leads(trace[Len(trace)], PC, epoch)

LEMMA TracedInit == Init => Traced
BY DEF Init, Traced, TraceIsRun

LEMMA TracedKept ==
  ASSUME Traced, UNCHANGED <<frame, piped, core, trace>>, ~halted' => ~halted
  PROVE  Traced'
BY DEF Traced, TraceIsRun, Leads, core, PC

(* An instruction that does not fail or halt leads where its entry says.   *)
LEMMA InstructionLeads ==
  ASSUME TypeOK, Xchg \/ Emit \/ RecurseBottom \/ RecursePush \/ Compute, ~halted'
  PROVE  epoch' = epoch + Ticks(Fetched) /\ (WritesPC(Fetched) \/ PC' = PC)
<1>1. CASE Xchg
  BY <1>1, TypeParts DEF Xchg, Executing, Ticks, WritesPC, Written, PC, RegsOK, Regs
<1>2. CASE Emit
  BY <1>2, TypeParts DEF Emit, Executing, Ticks, PC, RegsOK, Regs, MemoryOK
<1>3. CASE RecurseBottom
  BY <1>3 DEF RecurseBottom, Executing, Ticks, PC
<1>4. CASE RecursePush
  BY <1>4, TypeParts DEF RecursePush, Executing, Fail, Ticks, PC, RegsOK, Regs
<1>5. CASE Compute
  <2>1. PC' = PC \/ (Fetched.writeback /\ Fetched.dst = "PC")
    BY <1>5, ComputeRegs, TypeParts DEF Written, PC, RegsOK, Regs
  <2>2. Fetched.op \in BitOps \cup ExactOps /\ epoch' = epoch + 1
    BY <1>5 DEF Compute, Executing
  <2> QED BY <2>1, <2>2 DEF Ticks, WritesPC, BitOps, ExactOps
<1> QED BY <1>1, <1>2, <1>3, <1>4, <1>5

LEMMA TracedExecuting ==
  ASSUME TypeOK, Traced, NEW ops, Executing(ops),
         ~halted' => epoch' = epoch + Ticks(Fetched) /\ (WritesPC(Fetched) \/ PC' = PC)
  PROVE  Traced'
<1>1. trace \in Seq(Word \X Nat) /\ ~halted /\ UNCHANGED <<frame, piped>>
  BY TypeParts DEF TraceOK, Executing, Stepping
<1>2. CASE piped /\ Len(trace) < TraceSize
  <2> DEFINE e == <<PC, epoch>>
  <2>1. trace' = Append(trace, e)
    BY <1>2 DEF Executing, Record
  <2>2. /\ Len(trace') = Len(trace) + 1 /\ trace'[Len(trace) + 1] = e
        /\ \A i \in 1 .. Len(trace) : trace'[i] = trace[i]
        /\ Len(trace) \in Nat
    <3>1. e \in Word \X Nat
      BY TypeParts, RegisterWords DEF MemoryOK
    <3> QED BY <1>1, <2>1, <3>1, AppendProperties
  <2>4. ~halted' => Leads(e, PC', epoch')
    BY DEF Leads, Fetched
  <2>5. ASSUME NEW i \in 1 .. Len(trace') - 1
        PROVE  Leads(trace'[i], trace'[i + 1][1], trace'[i + 1][2])
    <3>1. CASE i \in 1 .. Len(trace) - 1
      BY <2>2, <3>1 DEF Traced, TraceIsRun, Leads, Ticks
    <3>2. CASE i = Len(trace)
      <4>1. trace # <<>> /\ trace'[i + 1] = e /\ trace'[i] = trace[Len(trace)]
        BY <1>1, <2>2, <2>5, <3>2
      <4>2. Leads(trace[Len(trace)], PC, epoch)
        BY <1>1, <1>2, <4>1 DEF Traced
      <4> QED BY <4>1, <4>2
    <3> QED BY <2>2, <3>1, <3>2
  <2>6. TraceIsRun'
    BY <1>1, <2>5 DEF TraceIsRun, Leads, Ticks, WritesPC
  <2>7. ~halted' => Leads(trace[Len(trace)], PC, epoch)'
    BY <1>1, <2>2, <2>4 DEF Leads
  <2> QED BY <1>1, <1>2, <2>6, <2>7 DEF Traced
<1>3. CASE ~(piped /\ Len(trace) < TraceSize)
  <2>1. trace' = trace
    BY <1>3 DEF Executing, Record
  <2>2. ~(piped /\ Len(trace') < TraceSize)
    BY <1>3, <2>1
  <2> QED BY <1>1, <1>3, <2>1 DEF Traced, TraceIsRun
<1> QED BY <1>2, <1>3

LEMMA TracedStep == TypeOK /\ Traced /\ [Next]_vars => Traced'
<1> SUFFICES ASSUME TypeOK, Traced, [Next]_vars PROVE Traced'
  OBVIOUS
<1>1. CASE (\E max \in Budgets : StartRun(max)) \/ EndRun \/ UNCHANGED vars
  BY <1>1, TracedKept DEF StartRun, EndRun, vars, control
<1>2. CASE RunOffEnd \/ Reject
  BY <1>2, TracedKept DEF RunOffEnd, Reject, Halt, Fail
<1>3. CASE StopOp \/ TrapOp \/ RecurseTooDeep
  BY <1>3, TracedExecuting DEF StopOp, TrapOp, RecurseTooDeep, Halt, Fail
<1>4. CASE Xchg \/ Emit \/ RecurseBottom \/ RecursePush \/ Compute
  BY <1>4, TracedExecuting, InstructionLeads
  DEF Xchg, Emit, RecurseBottom, RecursePush, Compute
<1> QED BY <1>1, <1>2, <1>3, <1>4 DEF Next, Step

(* The trace, up to the size of its buffer, is the run that was made.      *)
THEOREM TraceFaithful == Spec => []TraceIsRun
<1>1. Traced => TraceIsRun
  BY DEF Traced
<1> QED BY <1>1, InitType, StepType, TracedInit, TracedStep, PTL DEF Spec
=============================================================================
