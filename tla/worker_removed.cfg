SPECIFICATION Spec
CONSTANTS
  Key = {k1}
  Payload = {p1}
  MaxGeneration = 2
  MaxCrashes = 0
  MaxMessages = 1
INVARIANTS
  RemovedDataGone
CHECK_DEADLOCK FALSE
