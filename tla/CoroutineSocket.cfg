CONSTANTS
  SizeExp = 2
  Newlines <- MCNewlines
  NFrames = 2
  ReadCalls <- MCReadCalls
  LineSize = 2
  Segments = {2}
  MaxBytes = 6
  WriteSizes = {3}
  WriteExp = 1
  MaxSizeExp = 2
  MaxCalls = 4
SPECIFICATION FairSpec
CHECK_DEADLOCK FALSE
INVARIANTS TypeOK BytesAccounted WaitingIsRegistered TimerOnlyWhileWaiting
PROPERTY ReaderServed
