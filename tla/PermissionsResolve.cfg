SPECIFICATION FairSpec
CONSTANTS
  p1 = p1
  p2 = p2
  p3 = p3
  Gated = {p1}
  SecretReads = {}
  Direct = {}
  Recorded = {p2}
  Llm = {}
  Resolvers = {r1, r2}
  Same <- MCSame
  Covers <- MCCovers
  Expiring = {p1}
  MaxCrashes = 0
PROPERTIES
  StatusIsFinal
CHECK_DEADLOCK FALSE
