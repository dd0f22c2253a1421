\* The core frame of jxcl_build_core_frame, with a depth to recurse into and
\* more steps than it has instructions.
SPECIFICATION FairSpec
CONSTANTS
  General = {"R0", "R1"}
  W = 8
  Low = 4
  MaxDepth = 2
  DefaultDepth = 1
  StackSize = 4
  TraceSize = 3
  OutputSize = 2
  Frames <- MCCoreFrames
  Depths = {1, 2}
  Budgets = {30}
  MaxRuns = 1
PROPERTY CoreFrameRecurses
CHECK_DEADLOCK FALSE
