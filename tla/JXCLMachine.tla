---------------------------- MODULE JXCLMachine ----------------------------
(***************************************************************************)
(* The interpreter of jxcl/jxcl_impl3.h: jxcl_machine_init(_full), the     *)
(* instruction step and the run loop.  An instruction is one action per    *)
(* path through jxcl_machine_step; machine words are abstracted to         *)
(* 0 .. W-1, and an operation that mixes bits may yield any word.  The     *)
(* four state words q0..q3 are written but never read by an instruction,   *)
(* so they are left out.                                                   *)
(***************************************************************************)
EXTENDS Integers, Sequences

CONSTANTS
  W,             \* 2^64: machine words are 0 .. W-1
  Low,           \* 2^32: what a cast to uint32_t keeps
  MaxDepth,      \* JXCL_MAX_DEPTH
  DefaultDepth,  \* JXCL_DEFAULT_DEPTH
  StackSize,     \* JXCL_STACK_SIZE
  TraceSize,     \* JXCL_TRACE_SIZE
  OutputSize,    \* slots of mem.output
  Frames,        \* the programs: sequences of instructions
  Depths,        \* depths jxcl_machine_init_full is called with
  Budgets,       \* step limits jxcl_machine_run is called with
  MaxRuns,       \* how often it is called after one initialisation
  General        \* R0 .. R31 and the registers no instruction treats apart

Word == 0 .. W - 1
Regs == {"PC", "DEPTH", "OUT_PTR", "FLAGS", "ACC0"} \cup General
Operand == Regs \cup {"none", "bad"}   \* 0xFF, and 46 .. 0xFE

BitOps == {"XOR", "AND", "OR", "SHL", "SHR", "ROL", "ROR", "XTIME", "MIX32",
           "MIX64", "FOLD", "FOLD64", "XOR64", "ROTATE", "MUL8"}
ExactOps == {"NOP", "MOV", "NOT", "ADD", "SUB", "CMP", "SELECT", "ACC",
             "LOAD", "STORE", "LOAD64", "SRC_INJ"}
Opcodes == BitOps \cup ExactOps \cup {"XCHG", "RECURSE", "EMIT", "HALT", "TRAP"}
FlagOps == (BitOps \ {"ROTATE"}) \cup {"NOT", "ADD", "SUB", "CMP", "ACC"}

Instr == [op: Opcodes \cup {"bad"}, dst: Operand, src0: Operand, src1: Operand,
          writeback: BOOLEAN]

ASSUME WordAssumption == W \in Nat /\ Low \in Nat \ {0} /\ Low + 1 < W /\ W > 3
ASSUME DepthAssumption ==
  /\ MaxDepth \in Nat /\ MaxDepth < W
  /\ DefaultDepth \in 0 .. MaxDepth /\ Depths \subseteq Nat
ASSUME SizeAssumption ==
  /\ StackSize \in Nat /\ MaxDepth <= StackSize
  /\ TraceSize \in Nat /\ OutputSize \in Nat /\ OutputSize < Low
ASSUME FrameAssumption == Frames \subseteq Seq(Instr)
ASSUME BudgetAssumption == Budgets \subseteq Nat /\ MaxRuns \in Nat

VARIABLES
  frame,     \* frame.instrs[0 .. count-1]; frame[pc+1] here
  piped,     \* exec_mode = MODE_PIPE
  regs,      \* the register file
  depth,     \* state.depth
  epoch,     \* state.epoch
  stack,     \* the depth_save fields of stack[0 .. stack_ptr-1]
  output,    \* the slots of mem.output written so far
  trace,     \* <<pc, epoch>> of mem.trace[0 .. trace_count-1]
  halted, error,
  running,   \* inside jxcl_machine_run
  steps,     \* its counter s
  budget,    \* its argument max
  returned,  \* what the last run returned: "zero", "fold", or "none" yet
  runs       \* runs started

core == <<regs, depth, epoch, stack, output>>
control == <<halted, error, running, steps, budget, returned, runs>>
vars == <<frame, piped, core, trace, control>>

-----------------------------------------------------------------------------
Read(r) == IF r \in Regs THEN regs[r] ELSE 0
Written(rs, r, v) == IF r \in Regs THEN [rs EXCEPT ![r] = v] ELSE rs

(* jxcl_decode. *)
Decodes(i) ==
  i.op \in Opcodes /\ i.dst # "bad" /\ i.src0 # "bad" /\ i.src1 # "bad"

(* jxcl_execute_op.  LOAD, STORE, LOAD64 and SRC_INJ have no case: 0. *)
Results(op, a, b) ==
  CASE op \in BitOps -> Word
    [] op = "MOV" -> {a}
    [] op = "NOT" -> {W - 1 - a}
    [] op \in {"ADD", "ACC"} -> {(a + b) % W}
    [] op = "SUB" -> {(a - b) % W}
    [] op = "CMP" -> {IF a = b THEN 0 ELSE IF a > b THEN 1 ELSE 2}
    [] op = "SELECT" -> {IF regs["FLAGS"] % 2 = 1 THEN b ELSE a}
    [] OTHER -> {0}

(* jxcl_flags_upd: Z is bit 0, N bit 1; the rest of the low word is kept.  *)
(* N is bit 63, 31 or 7 of the result, as the operation is wide.           *)
FlagWords(op, a, b, r) ==
  LET zero == IF op = "CMP" THEN a = b ELSE r = 0
      kept == ((regs["FLAGS"] % Low) \div 16) * 16
  IN IF op \notin FlagOps THEN {regs["FLAGS"]}
     ELSE IF zero THEN {kept + 1} ELSE {kept, kept + 2}

-----------------------------------------------------------------------------
(* jxcl_machine_init, alone or from jxcl_machine_init_full(d); the former  *)
(* sets the register DEPTH but leaves state.depth at 0.                    *)
Boot(d, s) ==
  /\ regs = [r \in Regs |-> IF r = "DEPTH" THEN d ELSE 0]
  /\ depth = s

Init ==
  /\ frame \in Frames /\ piped \in BOOLEAN
  /\ \/ Boot(DefaultDepth, 0)
     \/ \E d \in Depths : LET c == IF d > MaxDepth THEN MaxDepth ELSE d IN Boot(c, c)
  /\ epoch = 0 /\ stack = <<>> /\ output = {} /\ trace = <<>>
  /\ halted = FALSE /\ error = "OK"
  /\ running = FALSE /\ steps = 0 /\ budget = 0 /\ returned = "none" /\ runs = 0

(* Mutant of StartRun: a run starts by clearing the halt. *)
StartRunAfresh(max) ==
  /\ ~running /\ runs < MaxRuns
  /\ running' = TRUE /\ steps' = 0 /\ budget' = max /\ runs' = runs + 1
  /\ halted' = FALSE
  /\ UNCHANGED <<frame, piped, core, trace, error, returned>>

StartRun(max) ==
  /\ ~running /\ runs < MaxRuns
  /\ running' = TRUE /\ steps' = 0 /\ budget' = max /\ runs' = runs + 1
  /\ UNCHANGED <<frame, piped, core, trace, halted, error, returned>>

EndRun ==
  /\ running /\ (halted \/ steps >= budget)
  /\ running' = FALSE /\ returned' = "fold"
  /\ UNCHANGED <<frame, piped, core, trace, halted, error, steps, budget, runs>>

(* The run loop calls jxcl_machine_step once more. *)
Stepping == running /\ ~halted /\ steps < budget /\ error = "OK"

Fine ==
  /\ steps' = steps + 1
  /\ UNCHANGED <<halted, error, running, budget, returned, runs>>

Halt ==
  /\ halted' = TRUE /\ steps' = steps + 1
  /\ UNCHANGED <<error, running, budget, returned, runs>>

(* The step returns an error, the run returns 0 at once. *)
Fail(e) ==
  /\ error' = e /\ halted' = TRUE
  /\ running' = FALSE /\ returned' = "zero"
  /\ UNCHANGED <<steps, budget, runs>>

PC == regs["PC"]
Fetched == frame[PC + 1]

RunOffEnd ==
  /\ Stepping /\ PC >= Len(frame)
  /\ Halt
  /\ UNCHANGED <<frame, piped, core, trace>>

Reject ==
  /\ Stepping /\ PC < Len(frame) /\ ~Decodes(Fetched)
  /\ Fail(IF {Fetched.dst, Fetched.src0, Fetched.src1} \cap {"bad"} # {}
            THEN "ILLEGAL_REG" ELSE "ILLEGAL_OPCODE")
  /\ UNCHANGED <<frame, piped, core, trace>>

(* Mutant of Record: a full buffer overwrites its last entry. *)
RecordOverLast ==
  trace' = IF ~piped THEN trace
           ELSE IF Len(trace) < TraceSize THEN Append(trace, <<PC, epoch>>)
           ELSE [trace EXCEPT ![TraceSize] = <<PC, epoch>>]

(* jxcl_trace_record, in MODE_PIPE, until the buffer is full. *)
Record ==
  trace' = IF piped /\ Len(trace) < TraceSize
             THEN Append(trace, <<PC, epoch>>) ELSE trace

Executing(ops) ==
  /\ Stepping /\ PC < Len(frame) /\ Decodes(Fetched) /\ Fetched.op \in ops
  /\ Record
  /\ UNCHANGED <<frame, piped>>

StopOp == Executing({"HALT"}) /\ Halt /\ UNCHANGED core

TrapOp == Executing({"TRAP"}) /\ Fail("ILLEGAL_OPCODE") /\ UNCHANGED core

Xchg ==
  /\ Executing({"XCHG"})
  /\ regs' = IF Fetched.src0 # "none" /\ Fetched.dst # "none"
               THEN Written(Written(regs, Fetched.dst, Read(Fetched.src0)),
                            Fetched.src0, Read(Fetched.dst))
               ELSE regs
  /\ epoch' = epoch + 1
  /\ Fine
  /\ UNCHANGED <<depth, stack, output>>

(* Mutants of HasSlot and NextSlot. *)
HasSlotLate(op) == op <= OutputSize
SameSlot(op) == op

HasSlot(op) == op < OutputSize
NextSlot(op) == op + 1

(* The slot number is OUT_PTR cut to 32 bits; the epoch stays. *)
Emit ==
  /\ Executing({"EMIT"})
  /\ LET op == regs["OUT_PTR"] % Low
     IN IF HasSlot(op)
          THEN output' = output \cup {op} /\ regs' = [regs EXCEPT !["OUT_PTR"] = NextSlot(op)]
          ELSE UNCHANGED <<output, regs>>
  /\ Fine
  /\ UNCHANGED <<depth, epoch, stack>>

D == regs["DEPTH"]

RecurseBottom ==
  /\ Executing({"RECURSE"}) /\ D = 0
  /\ epoch' = epoch + 1
  /\ Fine
  /\ UNCHANGED <<regs, depth, stack, output>>

(* Mutant of TooDeep: the limit is the stack's. *)
DeeperThanStack == D > StackSize

TooDeep == D > MaxDepth

RecurseTooDeep ==
  /\ Executing({"RECURSE"}) /\ D # 0 /\ TooDeep
  /\ Fail("DEPTH_EXCEEDED")
  /\ UNCHANGED core

(* Mutant of RecursePush: state.depth does not follow the register. *)
RecursePushStale ==
  /\ Executing({"RECURSE"}) /\ D # 0 /\ ~TooDeep
  /\ IF Len(stack) >= StackSize
       THEN Fail("STACK_OVERFLOW") /\ UNCHANGED core
       ELSE /\ stack' = Append(stack, depth)
            /\ regs' = [regs EXCEPT !["DEPTH"] = D - 1]
            /\ epoch' = epoch + 1
            /\ Fine
            /\ UNCHANGED <<depth, output>>

(* jxcl_recurse_push saves state.depth, not the register it tested. *)
RecursePush ==
  /\ Executing({"RECURSE"}) /\ D # 0 /\ ~TooDeep
  /\ IF Len(stack) >= StackSize
       THEN Fail("STACK_OVERFLOW") /\ UNCHANGED core
       ELSE /\ stack' = Append(stack, depth)
            /\ regs' = [regs EXCEPT !["DEPTH"] = D - 1]
            /\ depth' = D - 1
            /\ epoch' = epoch + 1
            /\ Fine
            /\ UNCHANGED output

(* ACC0 is xored with the result: any word, unless it was 0. *)
Accumulated(old, r) == IF old = 0 THEN {r} ELSE Word

(* All other operations: nothing but a writeback ever changes PC. *)
Compute ==
  /\ Executing(BitOps \cup ExactOps)
  /\ LET a == Read(Fetched.src0)
         b == Read(Fetched.src1)
     IN \E r \in Results(Fetched.op, a, b) :
        \E f \in FlagWords(Fetched.op, a, b, r) :
          LET flagged == [regs EXCEPT !["FLAGS"] = f]
              back == IF Fetched.writeback THEN Written(flagged, Fetched.dst, r)
                      ELSE flagged
          IN IF Fetched.op = "ACC"
               THEN \E x \in Accumulated(back["ACC0"], r) :
                      regs' = [back EXCEPT !["ACC0"] = x]
               ELSE regs' = back
  /\ epoch' = epoch + 1
  /\ Fine
  /\ UNCHANGED <<depth, stack, output>>

Step ==
  \/ RunOffEnd \/ Reject \/ StopOp \/ TrapOp \/ Xchg \/ Emit
  \/ RecurseBottom \/ RecurseTooDeep \/ RecursePush \/ Compute

Next == (\E max \in Budgets : StartRun(max)) \/ EndRun \/ Step

Spec == Init /\ [][Next]_vars

(* A run is a plain loop on one thread: once started it goes on. *)
FairSpec == Spec /\ WF_vars(EndRun \/ Step)

-----------------------------------------------------------------------------
(* Every field holds a value its C type allows. *)
TypeOK ==
  /\ frame \in Frames /\ piped \in BOOLEAN
  /\ regs \in [Regs -> Word]
  /\ depth \in 0 .. MaxDepth /\ epoch \in Nat
  /\ stack \in Seq(0 .. MaxDepth) /\ Len(stack) <= StackSize
  /\ output \subseteq 0 .. OutputSize - 1
  /\ trace \in Seq(Word \X Nat) /\ Len(trace) <= TraceSize
  /\ halted \in BOOLEAN /\ running \in BOOLEAN
  /\ error \in {"OK", "ILLEGAL_OPCODE", "ILLEGAL_REG", "DEPTH_EXCEEDED", "STACK_OVERFLOW"}
  /\ steps \in Nat /\ budget \in Nat /\ runs \in 0 .. MaxRuns
  /\ returned \in {"none", "zero", "fold"}

WritesPC(i) ==
  \/ i.op \in BitOps \cup ExactOps /\ i.writeback /\ i.dst = "PC"
  \/ i.op = "XCHG" /\ "PC" \in {i.dst, i.src0}

(* No program can overflow the recursion stack: RECURSE does not move PC,  *)
(* so it is the last instruction any program reaches, and every push takes *)
(* one off DEPTH.  Without this, 64 levels on a stack of 1024 would be no  *)
(* bound at all: an instruction may write DEPTH.                           *)
RecursionBounded ==
  stack # <<>> =>
    /\ Fetched.op = "RECURSE"
    /\ Len(stack) + D <= MaxDepth
    /\ error = "OK"

(* The saved depths count down to the current one, in state and register   *)
(* alike.  Only the first may be off: it is state.depth from before the    *)
(* first push, which a write to DEPTH does not touch.                      *)
SavedDepthsNest ==
  stack # <<>> =>
    /\ depth = D
    /\ \A i \in 2 .. Len(stack) : stack[i] = D + Len(stack) + 1 - i

(* Outputs have no gaps below OUT_PTR unless a program set OUT_PTR.        *)
OutputsContiguous ==
  (\A i \in 1 .. Len(frame) : "OUT_PTR" \notin {frame[i].dst, frame[i].src0}) =>
    output = 0 .. regs["OUT_PTR"] - 1

(* The trace is a run: entries are in order of time, and an instruction    *)
(* that does not write PC is followed by itself.                           *)
TraceIsRun ==
  \A i \in 1 .. Len(trace) - 1 :
    LET op == frame[trace[i][1] + 1]
    IN /\ trace[i + 1][2] = trace[i][2] + (IF op.op = "EMIT" THEN 0 ELSE 1)
       /\ WritesPC(op) \/ trace[i + 1][1] = trace[i][1]

(* A machine that has stopped stays stopped through any further run, and   *)
(* its registers, outputs and error stay as they were.                     *)
StoppedForGood ==
  [][halted => UNCHANGED <<core, trace, halted, error>>]_vars

(* README: the JXCL ISA runs "recursion".  The core frame, given its       *)
(* depth, pushes a recursion frame.                                        *)
CoreFrameRecurses == running /\ budget > Len(frame) ~> stack # <<>>
=============================================================================
