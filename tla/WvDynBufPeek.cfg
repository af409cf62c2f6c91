SPECIFICATION Spec
CONSTANTS
  NoByte <- Nothing
  Store = {1}
  Merges = {}
  MinAlloc = 2
  MaxAlloc = 4
  MaxPut <- FiveBytes
INVARIANT
  PeekReturns
CHECK_DEADLOCK FALSE
