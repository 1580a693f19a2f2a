SPECIFICATION Spec
CONSTANTS
  Subs = {s1}
  MaxContent = 3
  MaxCrashes = 0
PROPERTIES
  EmitsOnlyChanges
CHECK_DEADLOCK FALSE
