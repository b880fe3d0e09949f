CONSTANTS
  SizeExp = 2
  Newlines <- MCNewlines
  NFrames = 2
  ReadCalls <- MCReadCalls
  LineSize = 2
  Segments = {2}
  MaxBytes = 6
  WriteSizes = {3}
  WriteExp = 1
  MaxSizeExp = 2
  MaxCalls = 4
SPECIFICATION Spec
CHECK_DEADLOCK FALSE
INVARIANT LineBufferEmpty
