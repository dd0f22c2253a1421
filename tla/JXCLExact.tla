----------------------------- MODULE JXCLExact -----------------------------
(***************************************************************************)
(* The interpreter of jxcl/jxcl_impl3.h once more, with the values it      *)
(* computes: registers, state words, outputs and trace entries, as sets of *)
(* bits.  JXCLMachine is its abstraction: there a word is a number and an  *)
(* operation on bits may yield any.  The arrays that jxcl_machine_init     *)
(* does not clear, mem.trace here, keep what they held.                    *)
(***************************************************************************)
EXTENDS JXCLPrimitives

CONSTANTS
  General, MaxDepth, DefaultDepth, StackSize, TraceSize, OutputSize,   \* see JXCLMachine
  InstrSlots,    \* JXCL_INSTR_SLOTS
  SourceWords    \* words of mem.source

ASSUME ExactSizes ==
  /\ TraceSize \in Nat /\ OutputSize \in Nat /\ StackSize \in Nat /\ InstrSlots \in Nat
  /\ MaxDepth \in 0 .. StackSize /\ DefaultDepth \in 0 .. MaxDepth
  /\ MaxDepth < 2^16 /\ OutputSize < 2^16   \* as Bits takes no more
  /\ MaxDepth < 2^FullBits /\ OutputSize < 2^LongBits
ASSUME RegisterNames == General \cap {"none", "bad"} = {}

Regs == {"PC", "DEPTH", "OUT_PTR", "FLAGS", "ACC0"} \cup General
Errors == {"OK", "ILLEGAL_OPCODE", "ILLEGAL_REG", "ILLEGAL_ADDR", "STACK_OVERFLOW",
           "STACK_UNDERFLOW", "DEPTH_EXCEEDED", "UNINIT_STATE", "SOURCE_BOUNDS",
           "SPIRAL_BOUNDS"}
Opcodes == {"NOP", "MOV", "LOAD", "STORE", "XOR", "AND", "OR", "NOT", "SHL", "SHR",
            "ROL", "ROR", "XTIME", "MIX32", "MIX64", "FOLD", "CMP", "SELECT", "XCHG",
            "ACC", "ROTATE", "RECURSE", "EMIT", "HALT", "LOAD64", "ADD", "SUB", "MUL8",
            "FOLD64", "XOR64", "SRC_INJ", "TRAP"}

VARIABLES
  frame,     \* frame.instrs[0 .. count-1]; frame[pc+1] here
  piped,     \* exec_mode = MODE_PIPE
  regs,      \* the register file
  q,         \* <<q0, q1, q2, q3>>
  depth, epoch,
  stack,     \* stack[0 .. stack_ptr-1]
  source,    \* mem.source
  output,    \* the slots of mem.output written so far: the others are 0
  trace,     \* all of mem.trace
  recorded,  \* mem.trace_count
  halted, error,
  running, steps, budget,   \* inside jxcl_machine_run, its s and max
  returned,  \* what it returned, or <<>>
  boots      \* history: how often the machine has been initialised

core == <<regs, q, depth, epoch, stack, output>>
tape == <<trace, recorded>>
setup == <<frame, piped, source, boots>>
control == <<halted, error, running, steps, budget, returned>>
machine == <<setup, core, tape, control>>

-----------------------------------------------------------------------------
Read(r) == IF r \in Regs THEN regs[r] ELSE {}
Written(rs, r, v) == IF r \in Regs THEN [rs EXCEPT ![r] = v] ELSE rs

Illegal(i) == {i.dst, i.src0, i.src1} \ (Regs \cup {"none"})

Greater(a, b) == a # b /\ Max(Xor(a, b)) \in a

(* b & 63, for a word of 64 bits. *)
Amount(b) == Number({i \in b : 2^i < FullBits})

(* The value of jxcl_execute_op, where f are the flags. *)
Result(i, f, a, b) ==
  CASE i.op = "MOV" -> a
    [] i.op \in {"XOR", "XOR64"} -> Xor(a, b)
    [] i.op = "AND" -> a \cap b
    [] i.op = "OR" -> a \cup b
    [] i.op = "NOT" -> AllOnes \ a
    [] i.op = "SHL" -> ShiftLeft(a, Amount(b), FullBits)
    [] i.op = "SHR" -> ShiftRight(a, Amount(b))
    [] i.op \in {"ROL", "ROTATE"} -> Rol(a, Amount(b), FullBits)
    [] i.op = "ROR" -> Ror(a, Amount(b), FullBits)
    [] i.op \in {"ADD", "ACC"} -> Add(a, b, FullBits)
    [] i.op = "SUB" -> Sub(a, b, FullBits)
    [] i.op = "XTIME" -> XTime(Byte(a, 0, ByteBits))
    [] i.op = "MIX32" -> Mix32Word(Lo32(a))
    [] i.op = "MIX64" -> Mix64(a)
    [] i.op \in {"FOLD", "FOLD64"} -> Fold64(a, b, i.imm, {})
    [] i.op = "CMP" -> IF a = b THEN {} ELSE IF Greater(a, b) THEN {0} ELSE {1}
    [] i.op = "SELECT" -> IF 0 \in f THEN b ELSE a
    [] i.op = "MUL8" -> GfMul(Byte(a, 0, ByteBits), Byte(b, 0, ByteBits))
    [] OTHER -> {}

(* Its effect on the flags, which CMP takes from a difference. *)
Flags(i, f, a, b, r) ==
  CASE i.op = "CMP" -> FlagsUpd(f, Xor(a, b), FullBits)
    [] i.op \in {"XTIME", "MUL8"} -> FlagsUpd(f, r, ByteBits)
    [] i.op = "MIX32" -> FlagsUpd(f, r, LongBits)
    [] i.op \in {"XOR", "XOR64", "AND", "OR", "NOT", "SHL", "SHR", "ROL", "ROR", "ADD",
                 "SUB", "MIX64", "FOLD", "FOLD64", "ACC"} -> FlagsUpd(f, r, FullBits)
    [] OTHER -> f

-----------------------------------------------------------------------------
BootRegs(d) == [r \in Regs |-> IF r = "DEPTH" THEN Bits(d) ELSE {}]
BootSource == [i \in 0 .. SourceWords - 1 |-> SourceWord(i)]
NoState == <<{}, {}, {}, {}>>

(* What a trace entry that was never written holds. *)
Junk == [pc |-> {}, op |-> "NOP", q |-> NoState, epoch |-> 0, boot |-> 0]

(* jxcl_machine_init, on a machine with nothing in it. *)
MachineInit ==
  /\ regs = BootRegs(DefaultDepth) /\ q = NoState /\ depth = 0 /\ epoch = 0
  /\ stack = <<>> /\ output = <<>> /\ source = BootSource
  /\ trace = [i \in 1 .. TraceSize |-> Junk] /\ recorded = 0
  /\ frame = <<>> /\ piped = FALSE /\ halted = FALSE /\ error = "OK"
  /\ running = FALSE /\ steps = 0 /\ budget = 0 /\ returned = <<>> /\ boots = 1

(* jxcl_frame_add after jxcl_frame_init: what does not fit is refused. *)
Built(instrs) == SubSeq(instrs, 1, IF Len(instrs) < InstrSlots THEN Len(instrs) ELSE InstrSlots)

(* jxcl_source_inject of words from slot 0 on. *)
Injected(src, words) ==
  [i \in DOMAIN src |-> IF i < Len(words) THEN Xor(src[i], words[i + 1]) ELSE src[i]]

(* Mutant of ClearTrace: the counter is left. *)
KeepTrace == UNCHANGED tape

(* memset of the count alone: mem.trace is not cleared. *)
ClearTrace == recorded' = 0 /\ UNCHANGED trace

(* Mutant of ClearState: only the epoch is reset. *)
KeepState(d) == depth' = d /\ epoch' = 0 /\ UNCHANGED q

(* jxcl_state_init, and the depth set afterwards. *)
ClearState(d) == depth' = d /\ epoch' = 0 /\ q' = NoState

(* jxcl_machine_init_full and what its callers do before a run: MODE_PIPE, *)
(* injections, the frame.                                                  *)
Boot(d, instrs, words) ==
  LET c == IF d > MaxDepth THEN MaxDepth ELSE d
  IN /\ regs' = BootRegs(c) /\ ClearState(c) /\ ClearTrace
     /\ stack' = <<>> /\ output' = <<>> /\ source' = Injected(BootSource, words)
     /\ frame' = Built(instrs) /\ piped' = TRUE /\ halted' = FALSE /\ error' = "OK"
     /\ running' = FALSE /\ steps' = 0 /\ budget' = 0 /\ returned' = <<>>
     /\ boots' = boots + 1

StartRun(max) ==
  /\ ~running /\ running' = TRUE /\ steps' = 0 /\ budget' = max
  /\ UNCHANGED <<setup, core, tape, halted, error, returned>>

StateResult == Fold64(q[1], q[2], q[3], q[4])

EndRun ==
  /\ running /\ (halted \/ steps >= budget)
  /\ running' = FALSE /\ returned' = <<StateResult>>
  /\ UNCHANGED <<setup, core, tape, halted, error, steps, budget>>

-----------------------------------------------------------------------------
Stepping == running /\ ~halted /\ steps < budget /\ error = "OK"

Fine == steps' = steps + 1 /\ UNCHANGED <<halted, error, running, budget, returned>>

Halt ==
  /\ halted' = TRUE /\ steps' = steps + 1
  /\ UNCHANGED <<error, running, budget, returned>>

Fail(e) ==
  /\ error' = e /\ halted' = TRUE /\ running' = FALSE /\ returned' = <<{}>>
  /\ UNCHANGED <<steps, budget>>

(* jxcl_state_advance. *)
Advance(r) == q' = <<r, q[1], q[2], q[3]>> /\ epoch' = epoch + 1

InFrame == Number(regs["PC"]) < Len(frame)
Fetched == frame[Number(regs["PC"]) + 1]

RunOffEnd == Stepping /\ ~InFrame /\ Halt /\ UNCHANGED <<setup, core, tape>>

Reject ==
  /\ Stepping /\ InFrame /\ (Fetched.op \notin Opcodes \/ Illegal(Fetched) # {})
  /\ Fail(IF Illegal(Fetched) # {} THEN "ILLEGAL_REG" ELSE "ILLEGAL_OPCODE")
  /\ UNCHANGED <<setup, core, tape>>

(* jxcl_trace_record; boot is a history field. *)
Entry == [pc |-> regs["PC"], op |-> Fetched.op, q |-> q, epoch |-> epoch, boot |-> boots]

Record ==
  IF piped /\ recorded < TraceSize
    THEN trace' = [trace EXCEPT ![recorded + 1] = Entry] /\ recorded' = recorded + 1
    ELSE UNCHANGED tape

Executing(ops) ==
  /\ Stepping /\ InFrame /\ Fetched.op \in ops /\ Illegal(Fetched) = {}
  /\ Record
  /\ UNCHANGED setup

StopOp == Executing({"HALT"}) /\ Halt /\ UNCHANGED core

TrapOp == Executing({"TRAP"}) /\ Fail("ILLEGAL_OPCODE") /\ UNCHANGED core

Xchg ==
  /\ Executing({"XCHG"})
  /\ regs' = IF Fetched.src0 # "none" /\ Fetched.dst # "none"
               THEN Written(Written(regs, Fetched.dst, Read(Fetched.src0)),
                            Fetched.src0, Read(Fetched.dst))
               ELSE regs
  /\ epoch' = epoch + 1 /\ Fine
  /\ UNCHANGED <<q, depth, stack, output>>

Emit ==
  /\ Executing({"EMIT"})
  /\ LET op == Number(Lo32(regs["OUT_PTR"]))
     IN IF op < OutputSize
          THEN /\ output' = [s \in DOMAIN output \cup {op} |-> IF s = op THEN StateResult ELSE output[s]]
               /\ regs' = [regs EXCEPT !["OUT_PTR"] = Bits(op + 1)]
          ELSE UNCHANGED <<output, regs>>
  /\ Fine
  /\ UNCHANGED <<q, depth, epoch, stack>>

D == Number(regs["DEPTH"])

RecurseBottom ==
  /\ Executing({"RECURSE"}) /\ D = 0
  /\ Advance({}) /\ Fine
  /\ UNCHANGED <<regs, depth, stack, output>>

RecurseTooDeep ==
  /\ Executing({"RECURSE"}) /\ D > MaxDepth
  /\ Fail("DEPTH_EXCEEDED") /\ UNCHANGED core

(* jxcl_recurse_push, unless the stack is full, and jxcl_recurse_pop. *)
Pushed(stk, words, d) == Append(stk, [words |-> words, depth |-> d])
Top(stk) == Last(stk)
Popped(stk) == Front(stk)

RecursePush ==
  /\ Executing({"RECURSE"}) /\ D \in 1 .. MaxDepth
  /\ IF Len(stack) >= StackSize
       THEN Fail("STACK_OVERFLOW") /\ UNCHANGED core
       ELSE /\ stack' = Pushed(stack, q, depth)
            /\ regs' = [regs EXCEPT !["DEPTH"] = Bits(D - 1)]
            /\ depth' = D - 1
            /\ Advance({}) /\ Fine
            /\ UNCHANGED output

(* All other operations. *)
Compute ==
  /\ Executing(Opcodes \ {"HALT", "TRAP", "XCHG", "EMIT", "RECURSE"})
  /\ \E a \in {Read(Fetched.src0)}, b \in {Read(Fetched.src1)} :
     \E r \in {Result(Fetched, regs["FLAGS"], a, b)} :
       LET flagged == [regs EXCEPT !["FLAGS"] = Flags(Fetched, @, a, b, r)]
           back == IF Fetched.writeback THEN Written(flagged, Fetched.dst, r) ELSE flagged
       IN /\ regs' = IF Fetched.op = "ACC" THEN [back EXCEPT !["ACC0"] = Xor(@, r)] ELSE back
          /\ Advance(r)
  /\ Fine
  /\ UNCHANGED <<depth, stack, output>>

Step ==
  \/ RunOffEnd \/ Reject \/ StopOp \/ TrapOp \/ Xchg \/ Emit
  \/ RecurseBottom \/ RecurseTooDeep \/ RecursePush \/ Compute
=============================================================================
