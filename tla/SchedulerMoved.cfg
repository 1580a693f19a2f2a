SPECIFICATION Spec
CONSTANTS
  Schedules = {s1, s2}
  OneShot = {once}
  Recurring = {daily}
  MaxEdits = 2
  MaxOutages = 0
INVARIANT RescheduleStands
CHECK_DEADLOCK FALSE
