SPECIFICATION Spec
CONSTANTS
  Caller = {c1, c2}
  Recipients = 1
  BatchLimit = 2
  FirstKind = {"once", "cron", "trigger"}
  EditKind = {"once", "trigger"}
  MaxRuns = 2
  MaxEdits = 1
  MaxCrashes = 1
INVARIANTS
  TypeOK
  FailedNotAccepted
  SentConfirmed
  OneTimeRunsOnce
PROPERTIES
  AttemptsSpec
SYMMETRY Symmetry
CHECK_DEADLOCK FALSE
