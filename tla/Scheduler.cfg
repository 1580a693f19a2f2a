SPECIFICATION FairSpec
CONSTANTS
  Schedules = {s1, s2}
  OneShot = {once}
  Recurring = {daily}
  MaxEdits = 2
  MaxOutages = 2
INVARIANTS
  ReservationHolds
PROPERTIES
  OverNeverFires
  LiveScheduleFires
CHECK_DEADLOCK FALSE
