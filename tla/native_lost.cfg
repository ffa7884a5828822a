SPECIFICATION Spec
CONSTANTS
  Caller = {c1}
  Recipients = 2
  BatchLimit = 2
  FirstKind = {"trigger"}
  EditKind = {}
  MaxRuns = 1
  MaxEdits = 0
  MaxCrashes = 0
INVARIANTS
  QuietJobReleased
CHECK_DEADLOCK FALSE
