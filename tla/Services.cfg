SPECIFICATION Services
CONSTANTS
  Codes = {c1}
  Pairings = {d1, d2}
  Unreadable = {d2}
  Revokes = {k1}
  Requests = {r1, r2}
  Wakes = {w1}
  Endpoints = {x1, x2}
  NoEndpoint = NoEndpoint
  Events = {e1}
  Kinds <- MCKinds
  ToolNames = {t1}
  Decisions <- MCDecisions
  Subs = {s1}
  MaxContent = 2
  Writers = {w1}
  Backups = {b1}
  Restores = {r1, r2}
  Retain = 1
  MaxSecond = 2
  MaxConns = 3
  Puts = {p1, p2}
  Deletes = {del1}
  ToolReads = {t1}
  UserReads = {u1}
  Key = Key
  OtherKey = OtherKey
  Tabs = {t1, t2, t3}
  NoId = NoId
  Procs = {procA, procB}
  RpcCalls = {rpc1, rpc2, rpc3}
  Owner <- MCOwner
  t1 = t1
  rpc1 = rpc1
  rpc2 = rpc2
  rpc3 = rpc3
  procA = procA
  procB = procB
  MaxCrashes = 1
INVARIANTS
  CodePairsOnce
  ReachFollowsPairing
  TrailMatches
  
  RestoreIsReversible
  ListedIsWhole
  DisclosureIsAccounted
  PutIsStored
  ConversationIsResumed
  TabCleansUp
  AnswersAreTrue
PROPERTIES
  TransientFailureKeepsEndpoint
  EmitsInOrder
CHECK_DEADLOCK FALSE
