SPECIFICATION SuiteSpec
CONSTANTS
  Key <- MCKey
  Root <- MCRoot
  Prefix <- MCPrefix
  Value = {"", "v", "w"}
  Empty = ""
  Null = Null
  Cookie = {1, 2}
  MaxHold = 1
  MaxSets = 3
  InitTree <- MCTree
  MaxCalls = 2
  MaxOthers = 2
  Inode = {1, 2}
  MaxClock = 2
  Others <- SavedByOthers
  MaxChanges = 3
INVARIANT AllTold
CHECK_DEADLOCK FALSE
