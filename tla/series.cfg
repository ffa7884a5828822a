SPECIFICATION Spec
CONSTANTS
  Caller = {c1, c2}
  Total = 2
  Pieces <- TwoThenOne
  Kinds = {"cron", "dates", "trigger"}
  Dates = 1
  MaxEdits = 1
  MaxAsks = 2
  MaxCrashes = 1
INVARIANTS
  TypeOK
  NeverReplayed
  OnePartAtATime
  PlanCurrent
  CompletedDelivered
  RunFollowed
PROPERTIES
  StopHolds
SYMMETRY Symmetry
CHECK_DEADLOCK FALSE
