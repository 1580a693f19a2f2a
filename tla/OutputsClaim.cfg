SPECIFICATION FairSpec
CONSTANTS
  phone = phone
  digest = digest
  Events = {e1}
  Channels = {phone, digest}
  Device = phone
  Decisions <- MCDigest
  Recallable = {phone}
  Cancels = {k1}
  PageSize = 1
  MaxCrashes = 0
PROPERTIES
  ClaimedRowSettles
CHECK_DEADLOCK FALSE
