SPECIFICATION FairSpec
CONSTANTS
  Caller = {c1}
  Recipients = 2
  BatchLimit = 1
  FirstKind = {"trigger"}
  EditKind = {}
  MaxRuns = 1
  MaxEdits = 0
  MaxCrashes = 1
PROPERTIES
  SubmissionSettles
  OutcomeFetched
CHECK_DEADLOCK FALSE
