SPECIFICATION Spec
CONSTANTS
  Emissions = {e1, e2}
  Kinds <- MCKinds
  Picks <- MCPicks
  Reviews = {r1, r2}
  Stops = {1, 9, 11}
  MaxProposals = 2
  MaxCrashes = 1
INVARIANTS
  UrgentIsSeen
  TwiceHasACause
PROPERTIES
  QuietIsKept
  PromotionIsKept
SYMMETRY MCSymmetry
CHECK_DEADLOCK FALSE
