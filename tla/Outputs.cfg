SPECIFICATION Spec
CONSTANTS
  phone = phone
  digest = digest
  Events = {e1, e2}
  Channels = {phone, digest}
  Device = phone
  Decisions <- MCDecisions
  Recallable = {phone}
  Cancels = {k1, k2}
  PageSize = 1
  MaxCrashes = 1
CONSTRAINT MCOneAtATime
INVARIANTS
  CancelledIsNotShown
  CancelSeesAll
  PollMissesOnlyLate
PROPERTIES
  FollowsLifecycle
CHECK_DEADLOCK FALSE
