CONSTANTS
  NSocks = 3
  CompactionMinSize = 3
  MaxBuffered = 2
  MaxCalls = 5
SPECIFICATION Spec
CHECK_DEADLOCK FALSE
INVARIANT ClosingIsPending
