\* Words of 32 bits and the constants of the program; three state words,
\* recursion up to 4, four numbers of three sources.
SPECIFICATION Spec
CONSTANTS
  ByteBits = 8
  Reduction <- MCReduction
  Arecibo <- MCArecibo
  SourceBits = 1679
  StateWords = 3
  MaxRecursion = 4
  Prime1 <- MCPrime1
  Prime2 <- MCPrime2
  Prime3 <- MCPrime3
  Prime4 <- MCPrime4
  Seeds <- MCSeeds
  Sources = {0, 1, 2}
  MaxSteps = 4
INVARIANTS
  NumbersTied
  DiffusionReversible
  MixIsMatrix
  PrimitivesExact
PROPERTIES
  AccumulatorForgets
  SampleCancels
CHECK_DEADLOCK FALSE
