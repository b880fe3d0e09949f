SPECIFICATION Spec
CONSTANTS
  CompactionMinSize = 3
  NServers = 2
  NSocks = 2
  Leftovers <- MCLeftovers
  MaxCalls = 5
INVARIANTS
  TypeOK
  OwnsItsEntry
  CloseIsPosted
  ClosedIsOver
CHECK_DEADLOCK FALSE
