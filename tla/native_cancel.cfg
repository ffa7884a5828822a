SPECIFICATION Spec
CONSTANTS
  Caller = {c1, c2}
  Recipients = 1
  BatchLimit = 2
  FirstKind = {"trigger"}
  EditKind = {}
  MaxRuns = 2
  MaxEdits = 0
  MaxCrashes = 0
PROPERTIES
  CancelledForGood
CHECK_DEADLOCK FALSE
