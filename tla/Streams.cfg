SPECIFICATION SuiteSpec
CONSTANTS
  FdPairs <- SocketsAndPipes
  Calls = {"write", "flush", "close", "getline", "read", "noread", "nowrite",
           "flush_then_close", "delay_output", "auto_flush", "outbuf_limit", "setclosecallback"}
  Limits = {0, 2}
  SizeMod = 16
  Errors = TRUE
  MaxBytes = 4
  MaxIn = 2
  Clock <- MCClock
  Timeout = {0, 1, 2}
  MaxLate = 1
INVARIANTS
  BytesInOrder
  ClosesOnce
  DrainedFirst
  AlarmInTime
  BufferTrue
  TableTrue
PROPERTIES
  LimitKept
CHECK_DEADLOCK FALSE
