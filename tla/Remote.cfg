SPECIFICATION SuiteSpec
CONSTANTS
  Key <- MCKey
  Root <- MCRoot
  Prefix <- MCPrefix
  Value = {"", "v", "w"}
  Empty = ""
  Null = Null
  Loaded <- MCTreeWithEmpty
  MaxSets = 2
  Interval = 2
  MaxLate = 3
INVARIANTS
  CacheCurrent
  WaitsAfterDisconnect
  WatchersCurrent
PROPERTIES
  RefreshEnds
  ConnectsAgain
CHECK_DEADLOCK FALSE
