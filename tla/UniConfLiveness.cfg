SPECIFICATION FairSpec
CONSTANTS
  Key <- MCTwoKey
  Root <- MCRoot
  Prefix <- MCPrefix
  Value = {""}
  Empty = ""
  Null = Null
  Client = {1, 2}
  Op <- MCAskAndSetv
  CallbackOp = {"get"}
  InitTree <- EmptyTree
  MaxReq <- MCFourAndOne
  Failures = {}
PROPERTIES
  CallsReturn
CHECK_DEADLOCK FALSE
