--------------------------- MODULE MCJXCLMachine ---------------------------
(* Small programs on a machine of 3-bit words, and the core frame, for TLC. *)
EXTENDS JXCLMachine

I(op, dst, src0, src1, wb) ==
  [op |-> op, dst |-> dst, src0 |-> src0, src1 |-> src1, writeback |-> wb]
N == "none"

(* Instructions that meet every path of jxcl_machine_step, and those that  *)
(* write PC, DEPTH and OUT_PTR behind its back.                            *)
Repertoire ==
  { I("RECURSE", N, N, N, FALSE), I("EMIT", N, N, N, FALSE), I("HALT", N, N, N, FALSE),
    I("TRAP", N, N, N, FALSE), I("bad", N, N, N, FALSE), I("NOP", "bad", N, N, FALSE),
    I("MOV", "PC", "DEPTH", N, TRUE), I("XOR", "PC", "R0", "R1", TRUE),
    I("CMP", "R0", "PC", "DEPTH", TRUE), I("ADD", "PC", "PC", "FLAGS", TRUE),
    I("XCHG", "PC", "DEPTH", N, FALSE), I("XCHG", "OUT_PTR", "PC", N, FALSE),
    I("NOT", "DEPTH", "R0", N, TRUE), I("SUB", "DEPTH", "DEPTH", "FLAGS", TRUE),
    I("ACC", "R1", "DEPTH", "FLAGS", TRUE), I("SELECT", "PC", "R0", "DEPTH", TRUE) }

(* A program that reaches RECURSE with more than the deepest depth: DEPTH  *)
(* has been exchanged with a PC beyond MaxDepth = 2.                       *)
Deep == << I("XOR", "PC", "R0", "R1", TRUE), I("NOP", N, N, N, FALSE),
           I("RECURSE", N, N, N, FALSE), I("XCHG", "PC", "DEPTH", N, FALSE) >>

MCFrames == [1 .. 1 -> Repertoire] \cup [1 .. 2 -> Repertoire] \cup {Deep}

W3(op, dst, src0, src1) == I(op, dst, src0, src1, TRUE)

(* jxcl_build_core_frame: R0 stands for all general registers. *)
CoreFrame ==
  [i \in 1 .. 4 |-> W3("LOAD64", "R0", N, N)] \o
  [i \in 1 .. 3 |-> W3("XOR", "R0", "R0", "R1")] \o
  [i \in 1 .. 2 |-> W3("MIX32", "R0", "R0", N)] \o
  [i \in 1 .. 2 |-> W3("XOR", "R0", "R0", "R1")] \o
  [i \in 1 .. 8 |-> IF i % 2 = 1 THEN W3("ROL", "R1", "R0", N)
                                  ELSE W3("XOR64", "R0", "R0", "R1")] \o
  << W3("FOLD64", "R0", "R0", N), W3("XOR64", "R0", "R0", "R1"),
     I("RECURSE", "R0", N, N, FALSE), I("EMIT", N, N, N, FALSE), I("HALT", N, N, N, FALSE) >>

MCCoreFrames == {CoreFrame}
=============================================================================
