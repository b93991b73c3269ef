\* The docstring's reading of TIMEOUT.
SPECIFICATION Spec
CONSTANTS
  Descendant = {d1, d2}
INVARIANTS
  TimeoutMeansTreeDead
CHECK_DEADLOCK FALSE
