SPECIFICATION SuiteSpec
CONSTANTS
  Cont = {c1, c2, c3}
  NoCont = none
  MaxLinks = 2
  Stream = {s1, s2}
  List = list0
  MaxNest = 2
  Cookie = {x, y}
  NoCookie = null
  MaxRunning = 2
  MaxAdds = 5
INVARIANTS
  ContsInStep
  ListAccounted
  SyncPoints
PROPERTIES
  ControlComesBack
  StreamsServed
  QueueEmpties
CHECK_DEADLOCK FALSE
