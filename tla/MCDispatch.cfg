\* Two processes; r1 and r2 compete for key k1, r3 has key k2.
SPECIFICATION Spec
CONSTANTS
  r1 = r1
  r2 = r2
  r3 = r3
  k1 = k1
  k2 = k2
  Process = {p1, p2}
  Request = {r1, r2, r3}
  Key = {k1, k2}
  LogicalKey <- TwoKeys
  Signer = {s1, s2, s3}
  Outcome <- TwoOutcomes
  MaxBatch = 2
INVARIANTS
  OneAnswerPerKey
  ClosedIsExact
  JoinsAreAuthoritative
  CommittedCloseReturns
PROPERTIES
  OrphansAreForever
  ImplementsRunLedger
SYMMETRY Symmetry
