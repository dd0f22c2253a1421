----------------------------- MODULE MCJXCLMain -----------------------------
(* The program, and clients that run small programs three times, on a      *)
(* machine of one-bit bytes, for TLC.                                      *)
EXTENDS JXCLMain

MCGeneral == {"R0", "R1", "R2", "R3", "R4", "R5", "R6", "R7", "R8", "R9", "R10", "R11",
              "R12", "R13", "R14", "R15", "R16", "R17", "R18", "R19", "R20"}
MCArecibo == [i \in 0 .. 19 |-> {}]
MCPerm == [i \in 0 .. 19 |-> (7 * i + 3) % 20]
MCBudget == [phase \in {3, 5, 8, 10} |->
               CASE phase = 3 -> 2 [] phase = 5 -> 8 [] phase = 8 -> 16 [] phase = 10 -> 4]

(* Every opcode on registers that hold something, and every way to stop;   *)
(* CMP moves the PC on to the next instruction, once.                      *)
Singles ==
  {Instr(op, "R0", "DEPTH", r, {1}, TRUE) : op \in Opcodes \cup {"bad"}, r \in {"R0", "DEPTH"}}
    \cup {Instr(op, "PC", "R1", "R0", {0, 2}, TRUE) : op \in {"NOT", "XCHG", "SELECT", "FOLD"}}
    \cup {Instr("NOP", "bad", None, None, {}, FALSE), Instr("NOT", "OUT_PTR", "R0", None, {}, TRUE)}

On == Instr("CMP", "PC", "DEPTH", "PC", {}, TRUE)
Fill == Instr("NOT", "R0", "PC", None, {}, TRUE)

Small == {<<On, i>> : i \in Singles}
           \cup {<<On, Instr("XCHG", "DEPTH", "R0", None, {}, FALSE)>>,
                 <<Instr("NOT", "DEPTH", "R0", None, {}, TRUE), Fill>>,
                 <<On, Instr("NOT", "PC", "R0", None, {}, TRUE)>> }

Client(f) ==
  << Run(3, f, <<>>, 5), Run(9, <<Fill>>, <<{0}, AllOnes>>, 5), Run(3, f, <<{2}>>, 5), Do("dump") >>

MCScripts == {Main} \cup {Client(f) : f \in Small}
=============================================================================
