SPECIFICATION FairSpec
CONSTANTS
  Key = {k1, k2}
  Payload = {p1}
  MaxGeneration = 2
  MaxCrashes = 0
  MaxMessages = 2
PROPERTIES
  PendingMoves
CHECK_DEADLOCK FALSE
