SPECIFICATION Spec
CONSTANTS
  Caller = {c1, c2}
  Recipients = 1
  BatchLimit = 2
  FirstKind = {"trigger"}
  EditKind = {}
  MaxRuns = 3
  MaxEdits = 0
  MaxCrashes = 0
INVARIANTS
  OneRunAtATime
CHECK_DEADLOCK FALSE
