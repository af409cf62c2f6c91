SPECIFICATION Spec
CONSTANTS
  Key <- MCTwoKey
  Root <- MCRoot
  Prefix <- MCPrefix
  Value = {"", "v"}
  Empty = ""
  Null = Null
  Client = {1, 2}
  Op <- MCGetSet
  CallbackOp = {"get"}
  InitTree <- FullTree
  MaxReq <- MCTwoAndOne
  Failures = {}
PROPERTIES
  GetReturnsValue
CHECK_DEADLOCK FALSE
