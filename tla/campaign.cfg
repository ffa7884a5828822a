SPECIFICATION Spec
CONSTANTS
  Caller = {c1, c2}
  Recipients = {r1, r2}
  Created <- AllKinds
  Edited <- EditedKinds
  Grace = 1
  MaxRetries = 1
  WordTotal = 2
  MaxTime = 2
  MaxFirsts = 2
  MaxSkips = 1
  MaxUpsets = 1
  MaxCrashes = 1
INVARIANTS
  TypeOK
  ConfirmedNotResent
  StopHolds
  WordsNotSkipped
  CompletedDelivered
  NotForgotten
SYMMETRY Symmetry
CHECK_DEADLOCK FALSE
