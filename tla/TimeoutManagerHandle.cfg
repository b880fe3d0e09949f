CONSTANTS
  Delays <- MCDelays
  Ms = 2
  INT_MAX = 15
  U64 = 64
  MaxTimers = 2
  MaxArmings = 2
  MaxClock = 5
SPECIFICATION Spec
CHECK_DEADLOCK FALSE
INVARIANT HandleKeepsEntry
