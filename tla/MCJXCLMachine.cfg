\* Words 0..7, 2-bit casts, depths up to 2 (5 is cut to 2), a stack of 4, a
\* trace of 3, two output slots; all programs of one and two instructions of
\* the repertoire and one of four, run twice for four steps.
SPECIFICATION Spec
CONSTANTS
  General = {"R0", "R1"}
  W = 8
  Low = 4
  MaxDepth = 2
  DefaultDepth = 1
  StackSize = 4
  TraceSize = 3
  OutputSize = 2
  Frames <- MCFrames
  Depths = {0, 5}
  Budgets = {4}
  MaxRuns = 2
INVARIANTS
  TypeOK
  RecursionBounded
  SavedDepthsNest
  OutputsContiguous
  TraceIsRun
PROPERTY StoppedForGood
CHECK_DEADLOCK FALSE
