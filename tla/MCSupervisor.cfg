\* An upgrade may fall anywhere: between the preflight and the attempts, or
\* between a run's reading of the runtime and its docker create.
SPECIFICATION FairSpec
CONSTANTS
  Preflight = {pre}
  Attempt = {a1, a2}
  Variant = {v1, v2}
  Drifted = Drifted
  None = None
  MaxUpgrades = 1
INVARIANTS
  ReceiptIsEarned
  StartedIsAuthorised
  LeftoverIsReported
PROPERTIES
  AttemptEnds
\* Every run may have ended.
CHECK_DEADLOCK FALSE
