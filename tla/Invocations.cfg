SPECIFICATION FairSpec
CONSTANTS
  a1 = a1
  s1 = s1
  n1 = n1
  t1 = t1
  t2 = t2
  Awaited = {a1}
  Spawned = {s1}
  Nested = {n1}
  Parent <- MCParent
  Notifying = {s1}
  Tools = {t1, t2}
  Target <- MCTarget
  MaxCrashes = 1
INVARIANTS
  OrphanHasACause
  ChildEndsFirst
  ToldTwiceOnlyIfLate
PROPERTIES
  FollowsLifecycle
  SpawnedRunEnds
CHECK_DEADLOCK FALSE
