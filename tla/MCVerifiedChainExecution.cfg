\* Two executors, one cell with three attempts.
SPECIFICATION Spec
CONSTANTS
  b1 = b1
  b2 = b2
  NoBody = NoBody
  Executor = {e1, e2}
  Cell = {c1}
  Body = {b1, b2}
  Outcome <- SomeOutcomes
  MaxAttempt = 2
  MaxDirect = 1
INVARIANTS
  LineageIsVerified
  UsedOneWay
  LedgerAgrees
PROPERTIES
  LostIsForever
SYMMETRY Symmetry
CHECK_DEADLOCK FALSE
