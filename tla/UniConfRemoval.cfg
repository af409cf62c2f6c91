SPECIFICATION Spec
CONSTANTS
  Key <- MCFourKey
  Root <- MCRoot
  Prefix <- MCPrefix
  Value = {""}
  Empty = ""
  Null = Null
  Client = {c1, c2}
  Op <- MCRemovals
  CallbackOp = {}
  InitTree <- FullTree
  MaxReq <- MCOne
  Failures = {c1, c2}
INVARIANTS
  ToldInOrder
PROPERTIES
  RemovalCompleted
SYMMETRY MCSymmetry
CHECK_DEADLOCK FALSE
