------------------------------ MODULE JXCLMain ------------------------------
(***************************************************************************)
(* The program jxcl/jxcl_main.c: a straight line of phases that test the   *)
(* primitives and make one machine run again and again.  A phase is a      *)
(* segment of a script; Main is the script of the program, and any other   *)
(* script is another client of the same machine.  The tables of the        *)
(* self-tests are about bytes of eight bits, whatever the machine's words. *)
(***************************************************************************)
EXTENDS JXCLExact

CONSTANTS
  Scripts,    \* the scripts run
  Budget,     \* step limits by phase: 1024, 4096, 8192, 2048 for 3, 5, 8, 10
  DumpLimit,  \* entries printed by phase 9: 20
  Perm        \* spiral.perm, as jxcl_spiral_init (module Spiral) fills it

ASSUME DriverSizes == DumpLimit \in Nat /\ DOMAIN Budget = {3, 5, 8, 10}

Full == INSTANCE JXCLPrimitives WITH ByteBits <- 8, Reduction <- {0, 1, 3, 4}

VARIABLES
  script, at,   \* the script and the segment it is in
  ready,        \* the segment has initialised the machine
  counters,     \* st: <<pass, fail>> of each group of self-tests
  failed,       \* segments that print a failure but go on
  aborted,      \* return 1
  calls,        \* the runs whose results have been printed
  position, words, acc,   \* spiral_reader.position, words_read, acc
  dumped,       \* the entries phase 9 has printed
  shown         \* the values phases 11 and 13 have printed

driver == <<script, at, ready, counters, failed, aborted, calls, position, words, acc, dumped,
            shown>>
vars == <<machine, driver>>

-----------------------------------------------------------------------------
Do(what) == [do |-> what]
Run(d, instrs, inject, max) ==
  [do |-> "run", depth |-> d, frame |-> instrs, inject |-> inject, max |-> max]

Instr(op, dst, src0, src1, imm, writeback) ==
  [op |-> op, dst |-> dst, src0 |-> src0, src1 |-> src1, imm |-> imm, writeback |-> writeback]

(* A run's depth and limit are unsigned; a frame holds jxcl_instr_t. *)
Operand == Regs \cup {"none", "bad"}   \* 0xFF, and 46 .. 0xFE
InstrType == [op: STRING, dst: Operand, src0: Operand, src1: Operand, imm: FullWord,
              writeback: BOOLEAN]

ASSUME ScriptAssumption ==
  \A s \in Scripts : \A i \in 1 .. Len(s) : s[i].do = "run" =>
    /\ s[i].depth \in Nat /\ s[i].max \in Nat
    /\ s[i].frame \in Seq(InstrType) /\ s[i].inject \in Seq(FullWord)

None == "none"
Op1(op, dst, src0, imm) == Instr(op, dst, src0, None, Bits(imm), TRUE)
Op2(op, dst, src0, src1) == Instr(op, dst, src0, src1, {}, TRUE)

(* jxcl_build_core_frame. *)
CoreFrame ==
  << Op1("LOAD64", "R0", None, 0), Op1("LOAD64", "R1", None, 1),
     Op1("LOAD64", "R2", None, 2), Op1("LOAD64", "R3", None, 3),
     Op2("XOR", "R4", "R0", "R1"), Op2("XOR", "R5", "R2", "R3"), Op2("XOR", "R6", "R4", "R5"),
     Op1("MIX32", "R7", "R0", 0), Op1("MIX32", "R8", "R1", 0),
     Op2("XOR", "R9", "R7", "R8"), Op2("XOR", "R10", "R6", "R9"),
     Op1("ROL", "R11", "R10", 13), Op2("XOR64", "R12", "R10", "R11"),
     Op1("ROL", "R13", "R12", 7), Op2("XOR64", "R14", "R12", "R13"),
     Op1("ROL", "R15", "R14", 37), Op2("XOR64", "R16", "R14", "R15"),
     Op1("ROL", "R17", "R16", 23), Op2("XOR64", "R18", "R16", "R17"),
     Op1("FOLD64", "R19", "R18", 0), Op2("XOR64", "R20", "R19", "R10"),
     Instr("RECURSE", "R20", None, None, {}, FALSE),
     Instr("EMIT", None, None, None, {}, FALSE), Instr("HALT", None, None, None, {}, FALSE) >>

Groups == <<"xtime", "mix", "xor", "rot", "fold", "spiral", "recurse">>

Call(phase, d) == Run(d, CoreFrame, <<>>, Budget[phase])
Wide(a, b, c, d) == Bits(d) \cup ShiftLeft(Bits(c), 16, 64) \cup ShiftLeft(Bits(b), 32, 64)
                      \cup ShiftLeft(Bits(a), 48, 64)
DeadBeef == Wide(\hDEAD, \hBEEF, \hCAFE, \hBABE)
Counting == Wide(\h0123, \h4567, \h89AB, \hCDEF)

(* main, phase by phase.  Its words are cut to the machine's. *)
Main ==
  [i \in 1 .. 7 |-> Do(Groups[i])] \o << Do("verdict"), Do("mixcolumns") >>
    \o [d \in 1 .. 17 |-> Call(3, d - 1)] \o << Do("read") >>
    \o [i \in 1 .. 6 |-> Call(5, <<0, 1, 2, 3, 8, 16>>[i])]
    \o << Do("doubling"), Do("mixcolumns"), Call(8, DefaultDepth), Do("dump"),
          Run(2, CoreFrame, <<DeadBeef \cap AllOnes, Counting \cap AllOnes>>, Budget[10]),
          Do("fibonacci"), Do("rotations"), Do("products") >>

-----------------------------------------------------------------------------
XtimeVectors == << <<\h00, \h00>>, <<\h01, \h02>>, <<\h7F, \hFE>>, <<\h80, \h1B>>,
                   <<\hFF, \hE5>>, <<\h57, \hAE>>, <<\h83, \h1D>> >>

MixVectors ==
  << << <<\hD4, \hBF, \h5D, \h30>>, <<\h04, \h66, \h81, \hE5>> >>,
     << <<\h00, \h00, \h00, \h00>>, <<\h00, \h00, \h00, \h00>> >>,
     << <<\h50, \h50, \h50, \h50>>, <<\h50, \h50, \h50, \h50>> >>,
     << <<\hFF, \hFF, \hFF, \hFF>>, <<\hFF, \hFF, \hFF, \hFF>> >>,
     << <<\h80, \h00, \h80, \h00>>, <<\h9B, \h1B, \h9B, \h1B>> >>,
     << <<\h01, \h02, \h04, \h08>>, <<\h08, \h01, \h13, \h15>> >>,
     << <<\hFF, \h00, \h00, \h00>>, <<\hE5, \hFF, \hFF, \h1A>> >>,
     << <<\h80, \h00, \h00, \h00>>, <<\h1B, \h80, \h80, \h9B>> >>,
     << <<\h01, \h00, \h00, \h00>>, <<\h02, \h01, \h01, \h03>> >>,
     << <<\hAA, \h55, \hAA, \h55>>, <<\h4F, \hB0, \h4F, \hB0>> >> >>

BytesOf(v) == [i \in 0 .. 3 |-> Bits(v[i + 1])]

(* The same ten vectors in the self-test, the P3 report and phase 7. *)
MixChecks ==
  [i \in 1 .. 10 |-> Full!Mix32(BytesOf(MixVectors[i][1])) = BytesOf(MixVectors[i][2])]

Ones == Full!AllOnes
Bit(p) == {p}

XorVectors ==
  << <<{}, {}, {}>>, <<Ones, {}, Ones>>, <<Ones, Ones, {}>>,
     <<{i \in Ones : i % 2 = 1}, {i \in Ones : i % 2 = 0}, Ones>>,
     <<DeadBeef, DeadBeef, {}>>, <<Counting, Wide(\hFEDC, \hBA98, \h7654, \h3210), Ones>> >>

RotChecks ==
  << Full!Rol(Bit(0), 1, 64) = Bit(1), Full!Rol(Bit(63), 1, 64) = Bit(0),
     Full!Ror(Bit(1), 1, 64) = Bit(0), Full!Ror(Bit(0), 1, 64) = Bit(63),
     Full!Rol(Ones, 64, 64) = Ones, Full!Rol(0 .. 31, 32, 64) = 32 .. 63 >>

FoldChecks ==
  LET four(x) == Full!Fold64(x, x, x, x)
  IN << four({}) = {}, Full!Fold64(Bit(0), {}, {}, {}) = Bit(0),
        four(Bits(255)) = {}, four(Wide(0, 0, \hDEAD, \hBEEF)) = {} >>

Cells == 0 .. SourceBits - 1   \* JXCL_MATRIX_TOTAL of them
NoneTwice == \A j, k \in Cells : Perm[j] \in Cells /\ (Perm[j] = Perm[k] => j = k)
Undone == \A c \in Cells : \E k \in Cells : Perm[k] = c

(* On a stack and a state of its own. *)
RecurseChecks ==
  LET one == Pushed(<<>>, <<Wide(0, 0, \hDEAD, \hBEEF), {}, {}, {}>>, 3)
      two == Pushed(one, <<Wide(0, 0, \hCAFE, \hBABE), {}, {}, {}>>, 2)
  IN << 0 < StackSize, Len(one) < StackSize, Top(two).words[1] = Wide(0, 0, \hCAFE, \hBABE),
        Top(Popped(two)).words[1] = Wide(0, 0, \hDEAD, \hBEEF) >>

Checks ==
  [xtime |-> [i \in 1 .. 7 |-> Full!XTime(Bits(XtimeVectors[i][1])) = Bits(XtimeVectors[i][2])],
   mix |-> MixChecks,
   xor |-> [i \in 1 .. 6 |-> Xor(XorVectors[i][1], XorVectors[i][2]) = XorVectors[i][3]],
   rot |-> RotChecks,
   fold |-> FoldChecks,
   spiral |-> << NoneTwice /\ Undone, NoneTwice >>,
   recurse |-> RecurseChecks]

(* Phase 6: every byte, against the shift and the conditional reduction. *)
DoublingFails ==
  {v \in Full!Octet : Full!XTime(v) #
     (IF 7 \in v THEN Xor({i + 1 : i \in v \ {7}}, {0, 1, 3, 4}) ELSE {i + 1 : i \in v})}

RotationTests ==
  << <<Bit(0), 1>>, <<Bit(63), 1>>, <<Ones, 0>>, <<Ones, 64>>, <<0 .. 31, 32>>, <<DeadBeef, 17>> >>

RotationFails ==
  {i \in 1 .. 6 : LET val == RotationTests[i][1]
                      amt == RotationTests[i][2]
                  IN Full!Ror(Full!Rol(val, amt, 64), amt, 64) # val}

(* op(x), computing x once; and op eight times.  (64 rounds one in the     *)
(* other nest too deep for TLC.)                                           *)
Once(op(_), x) == CHOOSE y \in {op(z) : z \in {x}} : TRUE
EightTimes(op(_), x) == FoldLeft(LAMBDA y, i : Once(op, y), x, [i \in 1 .. 8 |-> i])

FibonacciFold ==
  LET round(s) == [x |-> Xor(s.x, s.a), a |-> s.b, b |-> Add(s.a, s.b, 64)]
      rounds(s) == EightTimes(round, s)
      folded(s) == Full!Fold64(s.x, s.a, s.b, {})
  IN Once(folded, EightTimes(rounds, [x |-> {}, a |-> Bit(0), b |-> Bit(0)]))

Products ==
  << Full!GfMul(Bits(2), Bits(\h87)), Full!GfMul(Bits(3), Bits(\h0E)),
     Full!GfMul(Bits(255), Bits(255)), Full!GfMul(Bits(1), {}) >>

-----------------------------------------------------------------------------
Init ==
  /\ MachineInit
  /\ script \in Scripts /\ at = 1 /\ ready = FALSE
  /\ counters = [g \in {Groups[i] : i \in 1 .. 7} |-> <<0, 0>>]
  /\ failed = {} /\ aborted = FALSE /\ calls = <<>>
  /\ position = 0 /\ words = 0 /\ acc = {}
  /\ dumped = <<>> /\ shown = <<>>

Inside(what) == at <= Len(script) /\ ~aborted /\ script[at].do = what
Segment == script[at]

Count(checks, b) == Cardinality({i \in DOMAIN checks : checks[i] = b})

(* jxcl_selftest_run, group by group. *)
SelfTest ==
  /\ \E i \in 1 .. 7 :
       /\ Inside(Groups[i])
       /\ LET c == Checks[Groups[i]]
          IN counters' = [counters EXCEPT ![Groups[i]] = <<Count(c, TRUE), Count(c, FALSE)>>]
  /\ at' = at + 1
  /\ UNCHANGED <<machine, script, ready, failed, aborted, calls, position, words, acc, dumped, shown>>

Verdict ==
  /\ Inside("verdict")
  /\ IF \E g \in DOMAIN counters : counters[g][2] > 0
       THEN aborted' = TRUE /\ UNCHANGED at
       ELSE at' = at + 1 /\ UNCHANGED aborted
  /\ UNCHANGED <<machine, script, ready, counters, failed, calls, position, words, acc, dumped, shown>>

(* Phases that print PASS or FAIL and go on. *)
Report(what, pass) ==
  /\ Inside(what)
  /\ failed' = IF pass THEN failed ELSE failed \cup {at}
  /\ at' = at + 1
  /\ UNCHANGED <<machine, script, ready, counters, aborted, calls, position, words, acc, dumped, shown>>

MixColumns == Report("mixcolumns", Count(MixChecks, FALSE) = 0)
Doubling == Report("doubling", DoublingFails = {})
Rotations == Report("rotations", RotationFails = {})

(* Phases that print values. *)
Show(what, values) ==
  /\ Inside(what)
  /\ shown' = shown \o values /\ at' = at + 1
  /\ UNCHANGED <<machine, script, ready, counters, failed, aborted, calls, position, words, acc, dumped>>

Fibonacci == Show("fibonacci", <<FibonacciFold>>)
Multiply == Show("products", Products)

Prepare ==
  /\ Inside("run") /\ ~ready
  /\ Boot(Segment.depth, Segment.frame, Segment.inject)
  /\ ready' = TRUE
  /\ UNCHANGED <<script, at, counters, failed, aborted, calls, position, words, acc, dumped, shown>>

Launch ==
  /\ Inside("run") /\ ready /\ returned = <<>>
  /\ StartRun(Segment.max)
  /\ UNCHANGED driver

Running == (EndRun \/ Step) /\ UNCHANGED driver

Collect ==
  /\ Inside("run") /\ ready /\ returned # <<>>
  /\ calls' = Append(calls, [at |-> at, result |-> returned[1], epoch |-> epoch, halted |-> halted])
  /\ at' = at + 1 /\ ready' = FALSE
  /\ UNCHANGED <<machine, script, counters, failed, aborted, position, words, acc, dumped, shown>>

(* Phase 4: all words of the spiral, with jxcl_spiral_read_word. *)
PrepareRead ==
  /\ Inside("read") /\ ~ready
  /\ Boot(DefaultDepth, <<>>, <<>>)
  /\ position' = 0 /\ words' = 0 /\ acc' = {} /\ ready' = TRUE
  /\ UNCHANGED <<script, at, counters, failed, aborted, calls, dumped, shown>>

ReadWord ==
  /\ Inside("read") /\ ready /\ position < SourceBits
  /\ LET n == IF FullBits <= SourceBits - position THEN FullBits ELSE SourceBits - position
         cell(i) == Perm[position + i]
         w == {i \in 0 .. n - 1 : /\ cell(i) \div FullBits < SourceWords
                                  /\ cell(i) % FullBits \in source[cell(i) \div FullBits]}
     IN position' = position + n /\ acc' = Xor(acc, w)
  /\ words' = words + 1
  /\ UNCHANGED <<machine, script, at, ready, counters, failed, aborted, calls, dumped, shown>>

EndRead ==
  /\ Inside("read") /\ ready /\ position >= SourceBits
  /\ at' = at + 1 /\ ready' = FALSE
  /\ UNCHANGED <<machine, script, counters, failed, aborted, calls, position, words, acc, dumped, shown>>

(* Mutant of DumpCount: whatever is in mem.trace. *)
DumpCountAll == IF TraceSize < DumpLimit THEN TraceSize ELSE DumpLimit

DumpCount == IF recorded < DumpLimit THEN recorded ELSE DumpLimit

Dump ==
  /\ Inside("dump")
  /\ dumped' = SubSeq(trace, 1, DumpCount)
  /\ at' = at + 1
  /\ UNCHANGED <<machine, script, ready, counters, failed, aborted, calls, position, words, acc, shown>>

Next ==
  \/ SelfTest \/ Verdict \/ MixColumns \/ Doubling \/ Rotations \/ Fibonacci \/ Multiply
  \/ Prepare \/ Launch \/ Running \/ Collect
  \/ PrepareRead \/ ReadWord \/ EndRead \/ Dump

Spec == Init /\ [][Next]_vars
FairSpec == Spec /\ WF_vars(Next)

-----------------------------------------------------------------------------
(* The machine as JXCLMachine sees it: words as numbers, an entry by its   *)
(* place and time, no state words.  (CHOOSE has TLC compute a function.)   *)
Plain(f) == [i \in DOMAIN f |-> [op |-> IF f[i].op \in Opcodes THEN f[i].op ELSE "bad",
                                 dst |-> f[i].dst, src0 |-> f[i].src0, src1 |-> f[i].src1,
                                 writeback |-> f[i].writeback]]
Requests == UNION {{s[i] : i \in {j \in 1 .. Len(s) : s[j].do = "run"}} : s \in Scripts}
Programs == {Plain(Built(r.frame)) : r \in Requests} \cup {<<>>}
Limits == {r.max : r \in Requests}

Numbers == CHOOSE n \in {[r \in Regs |-> Number(regs[r])]} : n \in [Regs -> Nat]
SavedDepths == [i \in DOMAIN stack |-> stack[i].depth]
Places == [i \in 1 .. recorded |-> <<Number(trace[i].pc), trace[i].epoch>>]
Outcome == IF returned = <<>> THEN "none" ELSE IF error = "OK" THEN "fold" ELSE "zero"
Started == IF running \/ returned # <<>> THEN 1 ELSE 0

M == INSTANCE JXCLMachine WITH
  W <- 2^FullBits, Low <- 2^LongBits,
  Frames <- Programs, Depths <- 0 .. MaxDepth, Budgets <- Limits, MaxRuns <- 1,
  frame <- Plain(frame), regs <- Numbers, stack <- SavedDepths, output <- DOMAIN output,
  trace <- Places, returned <- Outcome, runs <- Started

(* The exact machine does what the abstract one may do, whatever program   *)
(* it is given, and the driver always starts it afresh: what is proved of  *)
(* JXCLMachine holds of every run.                                         *)
ImplementsMachine == M!Init /\ [][M!Next \/ M!Init']_(M!vars)

(* What phase 9 dumps was recorded since the machine was last initialised, *)
(* although initialisation does not clear mem.trace and an earlier run may *)
(* have filled it further; and it is in order of time.                     *)
DumpIsOfLastRun ==
  [][dumped' # dumped =>
       \A i \in 1 .. Len(dumped') :
         /\ dumped'[i].boot = boots
         /\ \A j \in 1 .. i : dumped'[j].epoch <= dumped'[i].epoch]_vars

(* "All phases executed deterministically": runs of the same program, depth *)
(* and limit print the same result, whatever ran on the machine before and *)
(* whatever was injected into mem.source, which no instruction reads.      *)
SameCallSameResult ==
  \A c, d \in 1 .. Len(calls) :
    LET r == script[calls[c].at]
        s == script[calls[d].at]
    IN r.frame = s.frame /\ r.depth = s.depth /\ r.max = s.max =>
         /\ calls[c].result = calls[d].result
         /\ calls[c].epoch = calls[d].epoch /\ calls[c].halted = calls[d].halted

(* Every script comes to its end: every run does, also of programs that    *)
(* never halt, no self-test stops the program, and no later phase finds a  *)
(* failure that the self-test has missed.                                  *)
Completes == <>(at > Len(script) /\ failed = {})
=============================================================================
