SPECIFICATION Spec
CONSTANTS
  Clients = {tab}
  Kinds = {"reload", "quiet"}
  Capacity = 2
  Depth = 1
  MaxSeq = 4
  MaxRestarts = 1
INVARIANTS
  InOrder
  LossHasACause
PROPERTIES
  NoReloadLoop
CHECK_DEADLOCK FALSE
