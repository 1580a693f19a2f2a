SPECIFICATION Spec
CONSTANTS
  Chats = {s1}
  Posts = {p1}
  Inputs = {i1}
  MaxIterations = 2
  MaxCalls = 1
  MaxFaults = 1
CONSTRAINT TwoCalls
INVARIANTS
  CountIsRight
  DoneIsDurable
PROPERTIES
  HistoryIsComplete
  ThinkingEnds
CHECK_DEADLOCK FALSE
