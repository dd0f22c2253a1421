\* Words of eight one-bit bytes; limits, trace and dump cut in the ratio of
\* the program's 1024, 4096, 8192, 2048, 4096 and 20.
SPECIFICATION FairSpec
CONSTANTS
  ByteBits = 1
  Reduction = {0}
  Arecibo <- MCArecibo
  SourceBits = 20
  General <- MCGeneral
  MaxDepth = 64
  DefaultDepth = 3
  StackSize = 1024
  TraceSize = 8
  OutputSize = 3
  InstrSlots = 256
  SourceWords = 4
  Scripts <- MCScripts
  Budget <- MCBudget
  DumpLimit = 5
  Perm <- MCPerm
INVARIANT SameCallSameResult
PROPERTIES
  ImplementsMachine
  DumpIsOfLastRun
  Completes
CHECK_DEADLOCK FALSE
