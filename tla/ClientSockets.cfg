CONSTANTS
  NSocks = 3
  CompactionMinSize = 3
  MaxBuffered = 2
  MaxCalls = 5
SPECIFICATION FairSpec
CHECK_DEADLOCK FALSE
INVARIANTS TypeOK EntryPointsBack AccumulatesWhenFull PolledAsNeeded
  FinAfterBuffered AssociatedCountRight
PROPERTIES NothingAfterClose ConnectOutcomeSeen
