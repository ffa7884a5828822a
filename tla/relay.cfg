SPECIFICATION Spec
CONSTANTS
  Request = {r1, r2}
  Clients = 1
  MaxVersion = 2
  MaxApprovals = 2
  MaxPairs = 2
  MaxOps = 6
  MaxKeys = 2
  Callers = 1
  Payloads = 2
  MaxOperations = 2
INVARIANTS
  TypeOK
  SignedOut
  StaysWithdrawn
  OneSubmission
  Truthful
PROPERTIES
  SettledStays
SYMMETRY Symmetry
CHECK_DEADLOCK FALSE
