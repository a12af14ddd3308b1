SPECIFICATION Spec
CONSTANTS
  Messages <- MCTwoMessages
  Ids = {outer, inner}
  MaxMessages = 3
  MaxCheckpoints = 2
  MaxHandles = 1
  MaxErrorPrints = 1
INVARIANTS TypeOK CountsAgree DrainsReport
PROPERTIES RollBackRestores PushRestores
SYMMETRY IdSymmetry
CHECK_DEADLOCK FALSE
