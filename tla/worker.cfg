SPECIFICATION Spec
CONSTANTS
  Key = {k1, k2}
  Payload = {p1, p2}
  MaxGeneration = 3
  MaxCrashes = 1
  MaxMessages = 2
INVARIANTS
  TypeOK
  SentOnceInOrder
  AcceptedSurvives
  OneLiveSocket
  ConnectedHasSocket
  StoppedIsDown
PROPERTIES
  ConnectionKept
  OutboxSpec
SYMMETRY Symmetry
CHECK_DEADLOCK FALSE
