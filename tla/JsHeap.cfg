SPECIFICATION Spec
CONSTANTS
  NaN = NaN
  Null = Null
  Objs = {o1, o2, o3}
  Vars = {x1, x2}
  Owns = {y1, y2}
  Literals <- MCLiterals
  IndexKeys = {1}
  StringKeys <- MCStringKeys
  MaxCalls = 5
  MaxValueOps = 2
  MaxMakeOps = 4
  MaxDepth = 2
  MaxNum = 1
  MaxLen = 2
SYMMETRY MCSymmetry
INVARIANTS
  OwnersFormForest
  RefIsASlot
  ArgumentsOfCurrentCall
  StrictImpliesEqual
CHECK_DEADLOCK FALSE
