SPECIFICATION MCSpec
CONSTANTS
  Request = {q1, q2}
  Jobs = 3
  MaxFiles = 3
  MaxOps = 6
  MaxCrashes = 1
  MonthDays <- SomeDays
  Pages = 9
  Sources <- Plans
INVARIANTS
  TypeOK
  NoDangling
  NothingLeft
  ScheduleKept
  PartsKept
SYMMETRY Symmetry
CHECK_DEADLOCK FALSE
