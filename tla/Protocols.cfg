SPECIFICATION SuiteSpec
CONSTANTS
  Key <- MCKey
  Root <- MCRoot
  Prefix <- MCPrefix
  Value = {""}
  Empty = ""
  Null = Null
  Client = {1, 2}
  Op <- MCOp
  CallbackOp = {"set"}
  InitTree <- MCTree
  MaxReq <- MCReq
  Failures = {1}
INVARIANTS
  NoStrayReply
  ToldConverges
PROPERTIES
  ReplyMatches
  ToldAgreesWithGet
CHECK_DEADLOCK FALSE
