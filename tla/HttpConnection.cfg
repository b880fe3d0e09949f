SPECIFICATION Spec
CONSTANTS
  SizeExps <- MCSizeExps
  MaxLines = 5
  MaxCalls = 4
INVARIANTS
  TypeOK
  TailIsActive
  FreePairsAreClean
  HeldUntouched
  ContinuesWhenRoom
CHECK_DEADLOCK FALSE
