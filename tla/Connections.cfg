SPECIFICATION SuiteSpec
CONSTANTS
  FdPairs <- SocketsAndPipes
  Calls = {"write", "flush", "getline", "noread", "nowrite", "flush_then_close",
           "delay_output"}
  Limits = {}
  SizeMod = 16
  Errors = TRUE
  MaxBytes = 2
  MaxIn = 2
  Client = {c1, c2}
  Early = {c1}
  Name = {name}
  Nobody = none
  Bus = bus
  MaxSends = 2
  MaxCloses = 1
  MaxExpiries = 1
INVARIANTS
  OneAnswerEach
  CallsRouted
PROPERTIES
  StreamCloses
  AllDone
  AnswersCome
CHECK_DEADLOCK FALSE
