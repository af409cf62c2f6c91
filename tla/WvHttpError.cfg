SPECIFICATION Spec
CONSTANTS
  Url = {1, 2, 3}
  MaxRequests = 3
  Pipelining = TRUE
  MaxCloses = 1
INVARIANT
  OneGivenUp
CHECK_DEADLOCK FALSE
